---- MODULE Spec2Model ----
(***************************************************************************)
(* A model of the transport core of newtmgr:                               *)
(*   - the LoRa session (nmxact/mtech_lora/mtech_lora_sesn.go): Open,      *)
(*     Close, the background dispatch loop, Mtu, TxNmpOnce/TxCoapOnce and  *)
(*     sendFragments;                                                      *)
(*   - the serial framing (nmxact/nmserial/serial_xport.go): Tx and Rx;    *)
(*   - the CoAP option codec (go-coap/message.go): writeOpts, parseBody.   *)
(* Each part has its own specification over its own variables; the         *)
(* variables of the other parts stay at their initial values.              *)
(***************************************************************************)
EXTENDS Integers, Sequences, FiniteSets, TLC

VARIABLES
    \* ---- LoraSesn fields (mtech_lora_sesn.go:42-51) ----
    isOpen,      \* s.isOpen
    txvr,        \* s.txvr: 0 is nil, n > 0 the transceiver made by the n-th Open
    mtu,         \* s.mtu
    segSz,       \* s.cfg.Lora.SegSz
    listener,    \* s.listener: 0 is nil, n > 0 the listener made by the n-th Open
    wg,          \* s.wg: the WaitGroup's counter
    stopChan,    \* s.stopChan: "nil", "open" or "closed"
    \* ---- objects the session points to ----
    txvrStopped, \* Stop was called on the transceiver s.txvr points to
    lsn,         \* the listener s.listener points to: [msgs, mtus, closed]
    listenMap,   \* s.xport.listenMap at the session's key: 0 absent, n > 0 listener n,
                 \* -1 a listener of another session
    xportLock,   \* s.xport's mutex is held
    \* ---- threads ----
    nOpen,       \* how many times Open got the transport lock
    ctlPc,       \* the thread that calls Open and Close
    ctlRet,      \* what its last call returned
    loopPc,      \* the background goroutine of the n-th Open
    txPc,        \* the thread that calls TxNmpOnce / TxCoapOnce
    txRef,       \* the transceiver that call works on
    pending,     \* that call's request in its transceiver: "none", "wait", "err", "rsp"
    txRet,       \* what the last transmit call returned
    txSent,      \* the current (or last) transmit call has called sendFragments
    lastMtuRx,   \* the value the loop last received on MtuChan (0: none yet)
    prevMtuRx,   \* the value it received before that one (-1: none)
    panicked,    \* the process died of a nil dereference
    closeInTx,   \* Close aborted the transceiver while the current transmit call was
                 \* in flight with no response yet
    \* ---- one call of sendFragments (mtech_lora_sesn.go:173-230) ----
    fb,          \* b, the payload
    fSegSz,      \* segSz
    fCrc,        \* crc
    fOff,        \* off
    fIdx,        \* idx
    fSegs,       \* the segments handed to s.xport.Tx so far, each [hdr, crc, data]
    fPc,         \* "loop", "done" (returned nil) or "err" (returned the send's error)
    \* ---- SerialXport (serial_xport.go:53-59) and its port ----
    port,        \* the writes to the port that the scanner has not read yet
    sxPkt,       \* sx.pkt: [has, len, buf]; has is FALSE for nil
    rxPc,        \* "idle", or "scan" while a call of Rx is reading lines
    rxRet,       \* what the last call of Rx returned: [kind, data]
    sent,        \* the lengths n of the payloads Payload(n, 0) given to Tx so far
    nGot,        \* how many frames Rx has returned
    nSend,       \* how many frames and lines were written to the port
    nRx,         \* how many times Rx was called
    \* ---- the CoAP option codec (message.go) ----
    cOpts,       \* the options given to the encoder
    cPayload,    \* the payload given to the encoder
    cBuf,        \* the encoded options and payload
    cOut,        \* what parseBody returned: [opts, payload, err]
    cPc,         \* "new", "encoded", "panicked", "raw", "decoded"
    hDelta,      \* the delta and the value length of the option whose header
    hLen,        \*   is written by itself
    hBuf,        \* that header
    hOut,        \* the delta and length parsed from it: [delta, length, err]
    hPc,         \* "new", "written", "parsed"
    rItems,      \* the options a received body was built from: [delta, value]
    rTail,       \* what follows them in the body: [bad, why, bytes, payload]
    iVal,        \* a uint32 given to encodeInt, as its two 16-bit halves
    iBuf,        \* the bytes encodeInt returned
    iOut,        \* the uint32 decodeInt returned, as its two halves
    iPc,         \* "new", "encoded", "decoded"
    \* ---- sessions sharing one transport, and its Dispatch Map ----
    mKey,        \* the target key of each session
    mOpen,       \* s.isOpen of each session
    mCtl,        \* where each session's Open or Close stands: "idle",
                 \*   "openLock", "openIn", "adding", "closeWait"
    mLoop,       \* each session's loop: "none", "run", "exit", "removing"
    mStop,       \* whether each session's stopChan is closed
    mLock,       \* who holds the transport's lock: NoOne, Reader or a session
    mMap,        \* the Dispatch Map: pairs <<key, session>>
    mIn,         \* who is inside an operation of the map: <<who, operation>>
    mRd,         \* the inbound reader: "idle", "looking"
    mCalls,      \* how many Open calls and lookups were started
    \* ---- two transmit calls on one open session ----
    tb,          \* the encoded request of each call
    tSz,         \* segSz of each call's sendFragments
    tOff,        \* off of each call's sendFragments
    tIdx,        \* idx of each call's sendFragments
    tPc,         \* each call: "idle", "checked", "loop", "err", "done"
    wire,        \* the segments handed to the transport: [who, hdr]
    \* ---- the serial line between the peer and the port ----
    onWay,       \* the bursts the peer has written that have not arrived yet
    nLate,       \* how many bursts arrived after Rx had timed out with a
                 \*   packet in progress
    gaveUp       \* the frames the peer broke off: <<which, bursts not arrived>>

sesnVars == <<isOpen, txvr, mtu, segSz, listener, wg, stopChan, txvrStopped, lsn,
              listenMap, xportLock, nOpen, ctlPc, ctlRet, loopPc, txPc, txRef,
              pending, txRet, txSent, lastMtuRx, prevMtuRx, panicked, closeInTx>>

fragVars == <<fb, fSegSz, fCrc, fOff, fIdx, fSegs, fPc>>

serVars == <<port, sxPkt, rxPc, rxRet, sent, nGot, nSend, nRx>>

intVars == <<iVal, iBuf, iOut, iPc>>
codecVars == <<cOpts, cPayload, cBuf, cOut, cPc, hDelta, hLen, hBuf, hOut, hPc,
               rItems, rTail, iVal, iBuf, iOut, iPc>>

mapVars == <<mKey, mOpen, mCtl, mLoop, mStop, mLock, mMap, mIn, mRd, mCalls>>

twoVars == <<tb, tSz, tOff, tIdx, tPc, wire>>

wayVars == <<onWay, nLate, gaveUp>>

vars == <<sesnVars, fragVars, serVars, codecVars, mapVars, twoVars, wayVars>>

\* The variables of the other parts.
notSesn == <<fragVars, serVars, codecVars, mapVars, twoVars, wayVars>>
notFrag == <<sesnVars, serVars, codecVars, mapVars, twoVars, wayVars>>
notSer == <<sesnVars, fragVars, codecVars, mapVars, twoVars, wayVars>>
notCodec == <<sesnVars, fragVars, serVars, mapVars, twoVars, wayVars>>
notMap == <<sesnVars, fragVars, serVars, codecVars, twoVars, wayVars>>
notTwo == <<sesnVars, fragVars, serVars, codecVars, mapVars, wayVars>>
notSerWay == <<sesnVars, fragVars, codecVars, mapVars, twoVars>>

\* ------------------------------------------------------------------ bounds
MaxOpens == 2
MaxQueue == 1
MtuSteps == 2

\* The smallest MTU of the transport's data rates (LoraXport.minMtu).
MinMtu == 11

\* A configured segment size, when there is one.
CfgSegSz == 7

\* sendFragments: payload lengths 0..MaxLen and LongLen-1..LongLen+4, segment
\* sizes 5..MaxSegSz, payload patterns 0..MaxSeed.
MaxLen == 12
LongLen == 510
MaxSegSz == 7
MaxSeed == 1

\* Serial framing: payload lengths 0..MaxSerLen, and SerLongLen and
\* SerLongLen + 93, which need two and three bursts; at most MaxSends frames
\* and lines are written to the port and Rx is called at most MaxRxCalls
\* times.
MaxSerLen == 1
SerLongLen == 90
MaxSends == 2
MaxRxCalls == 3
\* The round trip of one frame is tried with the payload lengths
\* 0..MaxTripLen, with those of two and three bursts, and with 65533 and
\* 65534: with the two bytes of the CRC the greatest length that the 16 bits
\* of the frame's length hold, and the least they do not.
MaxTripLen == 12

\* The codec: at most MaxOpts options in a message.
MaxOpts == 2

\* Received bodies of at most MaxRawItems options.
MaxRawItems == 3

\* The integers encoded: every low half up to MaxLow, besides the edges.
MaxLow == 2

\* NumSesns sessions share one transport; together they start at most
\* MaxMapCalls Open calls and lookups.
NumSesns == 2
MaxMapCalls == 4

\* Two transmit calls with requests of at most MaxTwoLen bytes.
MaxTwoLen == 10

MtuVals == {0} \cup {MinMtu + i : i \in 1..MtuSteps}

Gens == 1..MaxOpens

\* ------------------------------------------------------------ bytes and CRC

Min(a, b) == IF a < b THEN a ELSE b

RECURSIVE BitXor(_, _)
BitXor(a, b) ==
    IF a = 0 THEN b
    ELSE IF b = 0 THEN a
    ELSE ((a + b) % 2) + 2 * BitXor(a \div 2, b \div 2)

RECURSIVE BitOr(_, _)
BitOr(a, b) ==
    IF a = 0 THEN b
    ELSE IF b = 0 THEN a
    ELSE (IF a % 2 = 1 \/ b % 2 = 1 THEN 1 ELSE 0) + 2 * BitOr(a \div 2, b \div 2)

\* a | 0x80 on a byte
OrHighBit(a) == IF a >= 128 THEN a ELSE a + 128

RECURSIVE CrcShift(_, _)
CrcShift(c, n) ==
    IF n = 0 THEN c
    ELSE CrcShift(IF c >= 32768 THEN BitXor((c * 2) % 65536, 4129) ELSE c * 2, n - 1)

CrcTable == [i \in 0..255 |-> CrcShift(i * 256, 8)]

\* One byte: crc = (crc << 8) ^ table[(crc >> 8) ^ b].
CrcStep(crc, byte) ==
    BitXor((crc % 256) * 256, CrcTable[BitXor(crc \div 256, byte)])

\* The bytes lo..hi of bs, in order (split in halves to keep the evaluation
\* shallow).
RECURSIVE CrcRange(_, _, _, _)
CrcRange(crc, bs, lo, hi) ==
    IF lo > hi THEN crc
    ELSE IF lo = hi THEN CrcStep(crc, bs[lo])
    ELSE LET mid  == (lo + hi) \div 2
             left == CrcRange(crc, bs, lo, mid)
         IN  IF left >= 0 THEN CrcRange(left, bs, mid + 1, hi) ELSE 0

\* crc16.Crc16: the CCITT CRC-16 (polynomial 0x1021, initial value 0), for
\* which the CRC of a buffer followed by its own big-endian CRC is 0.
Crc16(bs) == CrcRange(0, bs, 1, Len(bs))

\* b[from:to] of Go: the bytes at 0-based offsets from..to-1.
Slice(b, from, to) == SubSeq(b, from + 1, to)


\* The payloads tried: byte i is seed + 37 * i (mod 256), so that any 256
\* consecutive bytes differ from each other.
Payload(len, seed) == [i \in 1..len |-> (seed + 37 * i) % 256]

\* ---------------------------------------------------------------- base64

\* The alphabet of base64.StdEncoding, as ASCII codes; 61 is the padding '='.
B64Char(v) ==
    IF v < 26 THEN 65 + v
    ELSE IF v < 52 THEN 97 + (v - 26)
    ELSE IF v < 62 THEN 48 + (v - 52)
    ELSE IF v = 62 THEN 43 ELSE 47

\* The value of a character, -1 when it is not of the alphabet.
B64Val(c) ==
    IF c >= 65 /\ c <= 90 THEN c - 65
    ELSE IF c >= 97 /\ c <= 122 THEN c - 97 + 26
    ELSE IF c >= 48 /\ c <= 57 THEN c - 48 + 52
    ELSE IF c = 43 THEN 62
    ELSE IF c = 47 THEN 63
    ELSE -1

Pow64(e) == CASE e = 0 -> 1 [] e = 1 -> 64 [] e = 2 -> 4096 [] OTHER -> 262144
Pow256(e) == CASE e = 0 -> 1 [] e = 1 -> 256 [] OTHER -> 65536

\* base64.StdEncoding.Encode: three bytes make four characters, the last
\* group is padded with '='.
B64Encode(b) ==
    LET n == Len(b)
    IN  [j \in 1..(4 * ((n + 2) \div 3)) |->
            LET q  == (j - 1) \div 4
                r  == (j - 1) % 4
                b0 == b[3 * q + 1]
                b1 == IF 3 * q + 2 <= n THEN b[3 * q + 2] ELSE 0
                b2 == IF 3 * q + 3 <= n THEN b[3 * q + 3] ELSE 0
                v  == b0 * 65536 + b1 * 256 + b2
            IN  IF r = 2 /\ 3 * q + 2 > n THEN 61
                ELSE IF r = 3 /\ 3 * q + 3 > n THEN 61
                ELSE B64Char((v \div Pow64(3 - r)) % 64)]

\* base64.StdEncoding.DecodeString: [ok, data]. Carriage returns and
\* newlines are skipped; what is left must be groups of four characters of
\* the alphabet, of which only the last may end in one or two '='.
B64Decode(str) ==
    LET c   == SelectSeq(str, LAMBDA x : x # 10 /\ x # 13)
        n   == Len(c)
        pad == IF n > 0 /\ c[n] = 61
               THEN IF n > 1 /\ c[n - 1] = 61 THEN 2 ELSE 1
               ELSE 0
        ok  == /\ n % 4 = 0
               /\ \A i \in 1..(n - pad) : B64Val(c[i]) >= 0
        val(i) == IF i > n - pad THEN 0 ELSE B64Val(c[i])
    IN  [ok   |-> ok,
         data |-> IF ~ok THEN <<>>
                  ELSE [k \in 1..((n \div 4) * 3 - pad) |->
                          LET q == (k - 1) \div 3
                              r == (k - 1) % 3
                              v == val(4 * q + 1) * 262144 + val(4 * q + 2) * 4096
                                   + val(4 * q + 3) * 64 + val(4 * q + 4)
                          IN  (v \div Pow256(2 - r)) % 256]]

\* ------------------------------------------------------- the serial framing

\* binary.BigEndian.PutUint16 / Uint16
PutUint16(v) == <<(v % 65536) \div 256, v % 256>>
Uint16(b) == b[1] * 256 + b[2]

\* Line 151: the most encoded bytes of one burst.
BurstLen == 124

\* Lines 134-142: the two bytes written before a burst.
TxMarker(written) == IF written = 0 THEN <<6, 9>> ELSE <<4, 20>>

\* Lines 128-158: the bursts of the encoded frame, one for each turn of the
\* loop, each with its marker before it and a newline after it.
TxBursts(base64Data) ==
    LET totlen == Len(base64Data)
    IN  [q \in 1..((totlen + BurstLen - 1) \div BurstLen) |->
            LET written  == (q - 1) * BurstLen
                writeLen == Min(BurstLen, totlen - written)
            IN  TxMarker(written)
                    \o Slice(base64Data, written, written + writeLen)
                    \o <<10>>]

\* Lines 114-122: pktData, the length (of payload and CRC), the payload, the
\* CRC of the payload.
TxPktData(bytes) ==
    LET withCrc == bytes \o PutUint16(Crc16(bytes))
    IN  PutUint16(Len(withCrc)) \o withCrc

\* SerialXport.Tx: everything it writes to the port.
TxBytes(bytes) == TxBursts(B64Encode(TxPktData(bytes)))

\* Packet (packet.go): NewPacket, AddBytes, TrimEnd. The packet is full when
\* its buffer has reached the expected length.
NilPacket == [has |-> FALSE, len |-> 0, buf |-> <<>>]
NewPacket(len) == [has |-> TRUE, len |-> len, buf |-> <<>>]
AddBytes(pkt, data) == [pkt EXCEPT !.buf = @ \o data]
IsFull(pkt) == Len(pkt.buf) >= pkt.len
TrimEnd(buf, count) == SubSeq(buf, 1, Len(buf) - Min(count, Len(buf)))

\* Lines 168-174: leading carriage returns are dropped while more than one
\* byte is left.
RECURSIVE StripCr(_)
StripCr(line) ==
    IF Len(line) > 1 /\ line[1] = 13 THEN StripCr(Tail(line)) ELSE line

IsStart(line) == line[1] = 6 /\ line[2] = 9
IsCont(line) == line[1] = 4 /\ line[2] = 20

NoRet == [kind |-> "none", data |-> <<>>]

\* Rx going on with the packet in progress when a start line comes.
RxLineKeepsPacket(pkt, rawLine) ==
    LET line == StripCr(rawLine)
    IN  IF Len(line) < 2 \/ (~IsCont(line) /\ ~IsStart(line))
        THEN [pkt |-> pkt, ret |-> NoRet]
        ELSE
        LET dec == B64Decode(SubSeq(line, 3, Len(line)))
        IN  IF ~dec.ok
            THEN [pkt |-> pkt, ret |-> [kind |-> "b64Err", data |-> <<>>]]
            ELSE IF IsStart(line) /\ Len(dec.data) < 2
            THEN [pkt |-> pkt, ret |-> NoRet]
            ELSE
            LET pkt1 == IF IsStart(line) /\ ~pkt.has
                        THEN NewPacket(Uint16(dec.data))
                        ELSE pkt
                data == IF IsStart(line)
                        THEN SubSeq(dec.data, 3, Len(dec.data))
                        ELSE dec.data
            IN  IF ~pkt1.has
                THEN [pkt |-> pkt1, ret |-> NoRet]
                ELSE
                LET pkt2 == AddBytes(pkt1, data)
                IN  IF ~IsFull(pkt2)
                    THEN [pkt |-> pkt2, ret |-> NoRet]
                    ELSE IF Crc16(pkt2.buf) # 0
                    THEN [pkt |-> pkt2, ret |-> [kind |-> "crcErr", data |-> <<>>]]
                    ELSE [pkt |-> NilPacket,
                          ret |-> [kind |-> "frame", data |-> TrimEnd(pkt2.buf, 2)]]

\* Lines 166-222, one line of the scanner: the packet afterwards and what Rx
\* returns (kind "none": Rx reads the next line).
RxLine(pkt, rawLine) ==
    LET line == StripCr(rawLine)
    IN  IF Len(line) < 2 \/ (~IsCont(line) /\ ~IsStart(line))
        THEN [pkt |-> pkt, ret |-> NoRet]
        ELSE
        LET dec == B64Decode(SubSeq(line, 3, Len(line)))
        IN  IF ~dec.ok
            THEN [pkt |-> pkt, ret |-> [kind |-> "b64Err", data |-> <<>>]]
            ELSE IF IsStart(line) /\ Len(dec.data) < 2
            THEN [pkt |-> pkt, ret |-> NoRet]
            ELSE
            LET pkt1 == IF IsStart(line)
                        THEN NewPacket(Uint16(dec.data))
                        ELSE pkt
                data == IF IsStart(line)
                        THEN SubSeq(dec.data, 3, Len(dec.data))
                        ELSE dec.data
            IN  IF ~pkt1.has
                THEN [pkt |-> pkt1, ret |-> NoRet]
                ELSE
                LET pkt2 == AddBytes(pkt1, data)
                IN  IF ~IsFull(pkt2)
                    THEN [pkt |-> pkt2, ret |-> NoRet]
                    ELSE IF Crc16(pkt2.buf) # 0
                    THEN [pkt |-> pkt2, ret |-> [kind |-> "crcErr", data |-> <<>>]]
                    ELSE [pkt |-> NilPacket,
                          ret |-> [kind |-> "frame", data |-> TrimEnd(pkt2.buf, 2)]]

\* bufio.Scanner with ScanLines, on what was written to the port: the first
\* line, without its newline and without a carriage return before it, and
\* what is left behind it.
HasNl(bs) == ~(\A i \in 1..Len(bs) : bs[i] # 10)
FirstNl(bs) ==
    CHOOSE i \in 1..Len(bs) : bs[i] = 10 /\ \A j \in 1..(i - 1) : bs[j] # 10
HasLine(writes) == ~(\A k \in 1..Len(writes) : ~HasNl(writes[k]))
FirstNlWrite(writes) ==
    CHOOSE k \in 1..Len(writes) :
        HasNl(writes[k]) /\ \A j \in 1..(k - 1) : ~HasNl(writes[j])
RECURSIVE Flatten(_)
Flatten(writes) ==
    IF writes = <<>> THEN <<>> ELSE Head(writes) \o Flatten(Tail(writes))
FirstLine(writes) ==
    LET k   == FirstNlWrite(writes)
        raw == Flatten(SubSeq(writes, 1, k - 1))
                   \o SubSeq(writes[k], 1, FirstNl(writes[k]) - 1)
    IN  IF Len(raw) > 0 /\ raw[Len(raw)] = 13
        THEN SubSeq(raw, 1, Len(raw) - 1) ELSE raw
AfterFirstLine(writes) ==
    LET k == FirstNlWrite(writes)
        i == FirstNl(writes[k])
    IN  (IF i < Len(writes[k])
         THEN <<SubSeq(writes[k], i + 1, Len(writes[k]))>> ELSE <<>>)
            \o SubSeq(writes, k + 1, Len(writes))

SerPayloads ==
    {Payload(len, 0) : len \in (0..MaxSerLen) \cup {SerLongLen, SerLongLen + 93}}

TripPayloads ==
    {Payload(len, 0) :
        len \in (0..MaxTripLen) \cup {SerLongLen, SerLongLen + 93} \cup {65533, 65534}}

\* What arrives of the frame of each payload when the first byte behind the
\* length was changed on the way.
CorruptBytesOf ==
    [bytes \in SerPayloads |->
        LET good == TxPktData(bytes)
            bad  == [good EXCEPT ![3] = (@ + 1) % 256]
        IN  TxBursts(B64Encode(bad))]

SerIdle ==
    /\ port = <<>> /\ sxPkt = NilPacket /\ rxPc = "idle" /\ rxRet = NoRet
    /\ sent = <<>> /\ nGot = 0 /\ nSend = 0 /\ nRx = 0

\* NewSerialXport and Start: no packet, an empty port.
SerInit == SerIdle

WayIdle == onWay = <<>> /\ nLate = 0 /\ gaveUp = {}

\* SerialXport.Tx(bytes), lines 111-161.
SerTx(bytes) ==
    /\ nSend < MaxSends
    /\ port' = port \o TxBytes(bytes)
    /\ sent' = Append(sent, Len(bytes))
    /\ nSend' = nSend + 1
    /\ UNCHANGED <<sxPkt, rxPc, rxRet, nGot, nRx>>
    /\ UNCHANGED notSer

\* Tx is called once, on an empty port, before Rx is.
TripTx(bytes) == nSend = 0 /\ nRx = 0 /\ SerTx(bytes)

\* The peer's frame arrives with one byte of its payload or CRC changed.
PeerCorrupt(bytes) ==
    /\ nSend < MaxSends
    /\ port' = port \o CorruptBytesOf[bytes]
    /\ nSend' = nSend + 1
    /\ UNCHANGED <<sxPkt, rxPc, rxRet, sent, nGot, nRx>>
    /\ UNCHANGED notSer

\* A continuation line arrives that belongs to no frame.
PeerCont ==
    /\ nSend < MaxSends
    /\ port' = Append(port, <<4, 20>> \o B64Encode(<<1, 2, 3>>) \o <<10>>)
    /\ nSend' = nSend + 1
    /\ UNCHANGED <<sxPkt, rxPc, rxRet, sent, nGot, nRx>>
    /\ UNCHANGED notSer

\* A continuation line that is not text of the encoding arrives, behind
\* everything written so far.
PeerBadCont ==
    /\ nSend < MaxSends
    /\ port' = Append(port, <<4, 20, 33, 33, 10>>)
    /\ nSend' = nSend + 1
    /\ UNCHANGED <<sxPkt, rxPc, rxRet, sent, nGot, nRx>>
    /\ UNCHANGED notSer

\* Lines that are no part of a frame: an empty one, one of a single byte,
\* echoed text, one starting with half a marker, one ending in CR LF.
NoiseLines ==
    {<<10>>, <<65, 10>>, <<111, 107, 10>>, <<6, 65, 66, 10>>, <<4, 10>>,
     <<13, 13, 10>>, <<20, 4, 65, 65, 65, 65, 13, 10>>}

\* Such a line arrives before, between or behind the bursts on the port.
PeerNoise(k, line) ==
    /\ nSend < MaxSends
    /\ k <= Len(port)
    /\ port' = SubSeq(port, 1, k) \o <<line>> \o SubSeq(port, k + 1, Len(port))
    /\ nSend' = nSend + 1
    /\ UNCHANGED <<sxPkt, rxPc, rxRet, sent, nGot, nRx>>
    /\ UNCHANGED notSer

\* Tx is called once.
NoiseTx(bytes) == sent = <<>> /\ SerTx(bytes)

\* Rx is called.
SerRxCall ==
    /\ rxPc = "idle" /\ nRx < MaxRxCalls
    /\ rxPc' = "scan"
    /\ rxRet' = NoRet
    /\ nRx' = nRx + 1
    /\ UNCHANGED <<port, sxPkt, sent, nGot, nSend>>
    /\ UNCHANGED notSer

\* Lines 165-223: the scanner has a line; Rx handles it and returns or reads on.
SerRxLine ==
    /\ rxPc = "scan" /\ HasLine(port)
    /\ LET r == RxLine(sxPkt, FirstLine(port))
       IN  /\ sxPkt' = r.pkt
           /\ rxRet' = r.ret
           /\ rxPc' = IF r.ret.kind = "none" THEN "scan" ELSE "idle"
           /\ nGot' = IF r.ret.kind = "frame" THEN nGot + 1 ELSE nGot
    /\ port' = AfterFirstLine(port)
    /\ UNCHANGED <<sent, nSend, nRx>>
    /\ UNCHANGED notSer

\* Rx dropping the packet in progress when the read times out.
SerRxTimeoutDropsPacket ==
    /\ rxPc = "scan" /\ port = <<>>
    /\ rxRet' = [kind |-> "timeout", data |-> <<>>]
    /\ rxPc' = "idle"
    /\ sxPkt' = NilPacket
    /\ UNCHANGED <<port, sent, nGot, nSend, nRx>>
    /\ UNCHANGED notSer

\* Lines 225-233: the read times out with nothing to read; Rx returns the
\* timeout error and makes a new scanner.
SerRxTimeout ==
    /\ rxPc = "scan" /\ port = <<>>
    /\ rxRet' = [kind |-> "timeout", data |-> <<>>]
    /\ rxPc' = "idle"
    /\ UNCHANGED <<port, sxPkt, sent, nGot, nSend, nRx>>
    /\ UNCHANGED notSer

\* The payload of the k-th frame the peer wrote; each has bytes of its own.
SentPayload(k) == Payload(sent[k], k - 1)

LateLens == (0..MaxSerLen) \cup {SerLongLen, SerLongLen + 93}

\* The peer writes the frame of a payload (as Tx does, lines 111-161); its
\* bursts are on their way to the port.
PeerTx(len) ==
    /\ nSend < MaxSends
    /\ onWay = <<>>
    /\ onWay' = TxBytes(Payload(len, Len(sent)))
    /\ sent' = Append(sent, len)
    /\ nSend' = nSend + 1
    /\ UNCHANGED <<port, sxPkt, rxPc, rxRet, nGot, nRx, nLate, gaveUp>>
    /\ UNCHANGED notSerWay

\* The next burst arrives at the port, maybe after Rx has timed out.
Arrive ==
    /\ onWay # <<>>
    /\ port' = Append(port, Head(onWay))
    /\ onWay' = Tail(onWay)
    /\ nLate' = IF rxPc = "idle" /\ rxRet.kind = "timeout" /\ sxPkt.has
                THEN nLate + 1 ELSE nLate
    /\ UNCHANGED <<sxPkt, rxPc, rxRet, sent, nGot, nSend, nRx, gaveUp>>
    /\ UNCHANGED notSerWay

\* The peer breaks the frame off: the bursts not yet arrived never do.
PeerGiveUp ==
    /\ onWay # <<>>
    /\ gaveUp' = gaveUp \cup {<<Len(sent), Len(onWay)>>}
    /\ onWay' = <<>>
    /\ UNCHANGED <<port, sxPkt, rxPc, rxRet, sent, nGot, nSend, nRx, nLate>>
    /\ UNCHANGED notSerWay

\* ------------------------------------------- claims on the serial framing

\* C24: a timeout of Rx returns the timeout error and leaves the packet in
\* progress and the port as they were; Rx fails on no line; the k-th frame it
\* returns is the k-th payload the peer wrote, with no packet left in
\* progress; and once everything written has arrived and been read, every
\* frame has been returned, however many timeouts came between its bursts.
C24_TimeoutKeepsPacket ==
    /\ [][(rxPc = "scan" /\ rxRet'.kind = "timeout")
              => (rxPc' = "idle" /\ sxPkt' = sxPkt /\ port' = port)]_vars
    /\ [](rxRet.kind \in {"none", "frame", "timeout"})
    /\ []((rxRet.kind = "frame") =>
              /\ nGot \in 1..Len(sent)
              /\ rxRet.data = SentPayload(nGot)
              /\ ~sxPkt.has)
    /\ []((port = <<>> /\ onWay = <<>>) => nGot = Len(sent))

\* C24's case: a frame of three bursts of which the second and the third
\* each arrived after Rx had timed out with the packet in progress, returned.
C24_Witness ==
    /\ rxRet.kind = "frame" /\ nGot = 1 /\ nLate = 2
    /\ sent[1] = SerLongLen + 93
    /\ rxRet.data = SentPayload(1)

\* A line that starts a packet: the start marker and at least the two bytes
\* of the length.
StartsPacket(rawLine) ==
    LET line == StripCr(rawLine)
    IN  /\ Len(line) >= 2 /\ IsStart(line)
        /\ B64Decode(SubSeq(line, 3, Len(line))).ok
        /\ Len(B64Decode(SubSeq(line, 3, Len(line))).data) >= 2

\* What such a line carries: the length, then the first bytes of the frame.
StartData(rawLine) ==
    LET line == StripCr(rawLine)
    IN  B64Decode(SubSeq(line, 3, Len(line))).data

\* C25: when Rx handles a line that starts a packet while a packet is in
\* progress, the packet afterwards has the length that line declares and the
\* bytes of that line only (or the line is a whole frame, which is returned);
\* a frame Rx returns is the payload of a frame the peer did not break off,
\* and no packet is in progress then; and once everything written has
\* arrived and been read, every frame not broken off has been returned.
C25_StartDiscards ==
    /\ [][(/\ rxPc = "scan" /\ HasLine(port)
            /\ port' = AfterFirstLine(port)
            /\ sxPkt.has
            /\ StartsPacket(FirstLine(port)))
              => LET d == StartData(FirstLine(port))
                 IN  IF rxRet'.kind = "frame"
                     THEN /\ rxRet'.data = TrimEnd(SubSeq(d, 3, Len(d)), 2)
                          /\ ~sxPkt'.has
                     ELSE sxPkt' = [has |-> TRUE, len |-> Uint16(d),
                                    buf |-> SubSeq(d, 3, Len(d))]]_vars
    /\ []((rxRet.kind = "frame") =>
              /\ ~sxPkt.has
              /\ \E k \in 1..Len(sent) :
                    /\ \A g \in gaveUp : g[1] # k
                    /\ rxRet.data = SentPayload(k))
    /\ []((port = <<>> /\ onWay = <<>>) => nGot = Len(sent) - Cardinality(gaveUp))

\* C25's case: the peer broke a frame of three bursts off after two, both
\* were read, and the frame of two bursts written next was returned.
C25_Witness ==
    /\ rxRet.kind = "frame" /\ nGot = 1
    /\ gaveUp = {<<1, 1>>}
    /\ sent = <<SerLongLen + 93, SerLongLen>>
    /\ rxRet.data = SentPayload(2)

\* C7: when Tx has written the frame of a payload to an empty port and
\* nothing else is written, Rx fails on none of its lines, the frame Rx
\* returns is that payload byte for byte, however many bursts it took, no
\* packet is left in progress then, and once the port is drained the payload
\* has been returned.
C7_RoundTrip ==
    /\ rxRet.kind \in {"none", "frame", "timeout"}
    /\ (rxRet.kind = "frame") =>
          (nGot = 1 /\ rxRet.data = Payload(sent[1], 0) /\ ~sxPkt.has)
    /\ (port = <<>> /\ sent # <<>>) => nGot = 1

\* C8: after Rx has failed with the checksum error no packet is in progress.
C8_ResetAfterCrcError ==
    (rxPc = "idle" /\ rxRet.kind = "crcErr") => ~sxPkt.has

\* The text C19 prescribes for a payload of n bytes: the encoding of the
\* length n + 2 on two bytes, the payload and its checksum on two bytes.
FrameText(n) ==
    LET payload == Payload(n, 0)
        crc     == Crc16(payload)
    IN  B64Encode(<<(n + 2) \div 256, (n + 2) % 256>> \o payload
                      \o <<crc \div 256, crc % 256>>)

\* The encoded bytes of a burst, between its marker and its newline.
BurstBody(burst) == SubSeq(burst, 3, Len(burst) - 1)

\* C19: when Tx has written the frame of a payload to an empty port, the
\* port holds bursts of which the first starts with 6, 9 and every later
\* one with 4, 20, each ends with a newline and carries at most 124 encoded
\* bytes, each but the last exactly 124, and the bursts' encoded bytes, in
\* order, are the text of the length (the payload's plus 2, on two bytes),
\* the payload and the checksum.
C19_Bursts ==
    (nSend = 1 /\ nRx = 0 /\ sent # <<>>) =>
        /\ sent[1] + 2 < 65536
        /\ LET text == FrameText(sent[1])
               last == Len(port)
           IN  /\ last >= 1
               /\ \A q \in 1..last :
                     /\ Len(port[q]) >= 3
                     /\ SubSeq(port[q], 1, 2) = (IF q = 1 THEN <<6, 9>> ELSE <<4, 20>>)
                     /\ port[q][Len(port[q])] = 10
                     /\ Len(BurstBody(port[q])) <= 124
                     /\ (q < last => Len(BurstBody(port[q])) = 124)
                     /\ \A i \in 1..Len(BurstBody(port[q])) : BurstBody(port[q])[i] # 10
               /\ (last - 1) * 124 + Len(BurstBody(port[last])) = Len(text)
               /\ \A q \in 1..last :
                     BurstBody(port[q])
                         = SubSeq(text, (q - 1) * 124 + 1,
                                  (q - 1) * 124 + Len(BurstBody(port[q])))

\* A line C20 calls ignored, given the packet in progress: after the leading
\* carriage returns, it is shorter than 2 bytes, or starts with neither
\* marker, or starts with the continuation marker while there is no packet.
Ignored(rawLine, pkt) ==
    LET line == StripCr(rawLine)
    IN  \/ Len(line) < 2
        \/ (~IsStart(line) /\ ~IsCont(line))
        \/ (IsCont(line) /\ ~pkt.has)

\* C20: a step in which Rx handles an ignored line leaves Rx reading, with
\* nothing returned and the packet as it was; and the frame Rx returns is the
\* payload that was sent, whatever lines arrived around and between its
\* bursts.
C20_NoiseIgnored ==
    [][/\ (/\ rxPc = "scan" /\ HasLine(port)
           /\ port' = AfterFirstLine(port)
           /\ Ignored(FirstLine(port), sxPkt))
              => (rxPc' = "scan" /\ sxPkt' = sxPkt /\ rxRet' = rxRet)
       /\ (rxRet'.kind = "frame") => (rxRet'.data = Payload(sent'[1], 0))]_vars

\* ------------------------------------------------------ the option codec

\* Lines 192-209: optionDefs, the registry; every other id has the zero
\* entry, whose format is valueUnknown.
OptionDefs ==
    [id \in 0..255 |->
        CASE id = 1  -> [valueFormat |-> "opaque", minLen |-> 0, maxLen |-> 8]
          [] id = 3  -> [valueFormat |-> "string", minLen |-> 1, maxLen |-> 255]
          [] id = 4  -> [valueFormat |-> "opaque", minLen |-> 1, maxLen |-> 8]
          [] id = 5  -> [valueFormat |-> "empty",  minLen |-> 0, maxLen |-> 0]
          [] id = 6  -> [valueFormat |-> "uint",   minLen |-> 0, maxLen |-> 3]
          [] id = 7  -> [valueFormat |-> "uint",   minLen |-> 0, maxLen |-> 2]
          [] id = 8  -> [valueFormat |-> "string", minLen |-> 0, maxLen |-> 255]
          [] id = 11 -> [valueFormat |-> "string", minLen |-> 0, maxLen |-> 255]
          [] id = 12 -> [valueFormat |-> "uint",   minLen |-> 0, maxLen |-> 2]
          [] id = 14 -> [valueFormat |-> "uint",   minLen |-> 0, maxLen |-> 4]
          [] id = 15 -> [valueFormat |-> "string", minLen |-> 0, maxLen |-> 255]
          [] id = 17 -> [valueFormat |-> "uint",   minLen |-> 0, maxLen |-> 2]
          [] id = 20 -> [valueFormat |-> "string", minLen |-> 0, maxLen |-> 255]
          [] id = 35 -> [valueFormat |-> "string", minLen |-> 1, maxLen |-> 1034]
          [] id = 39 -> [valueFormat |-> "string", minLen |-> 1, maxLen |-> 255]
          [] id = 60 -> [valueFormat |-> "uint",   minLen |-> 0, maxLen |-> 4]
          [] OTHER   -> [valueFormat |-> "unknown", minLen |-> 0, maxLen |-> 0]]

ContentFormat == 12
Accept == 17

\* An option value (interface{}): its dynamic type t, and the number n or the
\* bytes b it holds. NilValue is the nil interface.
UintValue(n) == [t |-> "uint32", n |-> n, b |-> <<>>]
MediaTypeValue(n) == [t |-> "MediaType", n |-> n, b |-> <<>>]
StringValue(b) == [t |-> "string", n |-> 0, b |-> b]
BytesValue(b) == [t |-> "bytes", n |-> 0, b |-> b]
NilValue == [t |-> "nil", n |-> 0, b |-> <<>>]

\* Lines 229-248.
encodeInt(v) ==
    IF v = 0 THEN <<>>
    ELSE IF v < 256 THEN <<v>>
    ELSE IF v < 65536 THEN <<v \div 256, v % 256>>
    ELSE IF v < 16777216 THEN <<v \div 65536, (v \div 256) % 256, v % 256>>
    ELSE <<v \div 16777216, (v \div 65536) % 256, (v \div 256) % 256, v % 256>>

\* Lines 250-254: the bytes are the low end of a big-endian 32-bit word.
RECURSIVE decodeInt(_)
decodeInt(b) ==
    IF b = <<>> THEN 0
    ELSE decodeInt(SubSeq(b, 1, Len(b) - 1)) * 256 + b[Len(b)]

\* encodeInt writing every value on four bytes.
encodeWordFourBytes(w) == PutUint16(w[1]) \o PutUint16(w[2])

\* A uint32 of any size, as its high and its low 16 bits: a number from 2^31
\* on is beyond the integers of the model. Lines 229-248 on such a pair: from 2^31
\* on the switch takes its default case.
WordLimit == 32768
encodeWord(w) ==
    IF w[1] < WordLimit THEN encodeInt(w[1] * 65536 + w[2])
    ELSE PutUint16(w[1]) \o PutUint16(w[2])

\* Lines 250-254 on any four bytes or fewer: tmp is b behind zeros, read as
\* a big-endian 32-bit word.
decodeWord(b) ==
    LET tmp == [i \in 1..4 |-> IF i <= 4 - Len(b) THEN 0 ELSE b[i - (4 - Len(b))]]
    IN  <<Uint16(SubSeq(tmp, 1, 2)), Uint16(SubSeq(tmp, 3, 4))>>

\* Lines 256-280, for the values of a type it accepts.
toBytes(o) ==
    IF o.Value.t \in {"string", "bytes"} THEN o.Value.b ELSE encodeInt(o.Value.n)

\* parseOptionValue keeping a value of any length under a known id.
parseOptionValueAnyLength(optionID, valueBuf) ==
    IF OptionDefs[optionID].valueFormat = "unknown" THEN NilValue
    ELSE BytesValue(valueBuf)

\* Lines 282-307. MediaType is a byte (line 212): the conversion keeps the
\* low eight bits.
MediaTypeOf(intValue) == MediaTypeValue(intValue % 256)

parseOptionValue(optionID, valueBuf) ==
    LET def == OptionDefs[optionID]
    IN  IF def.valueFormat = "unknown" THEN NilValue
        ELSE IF Len(valueBuf) < def.minLen \/ Len(valueBuf) > def.maxLen THEN NilValue
        ELSE IF def.valueFormat = "uint"
        THEN IF optionID = ContentFormat \/ optionID = Accept
             THEN MediaTypeOf(decodeInt(valueBuf))
             ELSE UintValue(decodeInt(valueBuf))
        ELSE IF def.valueFormat = "string" THEN StringValue(valueBuf)
        ELSE BytesValue(valueBuf)

\* Lines 497-503.
extoptByteCode == 13
extoptByteAddend == 13
extoptWordCode == 14
extoptWordAddend == 269
extoptError == 15

\* Lines 534-546: the nibble and the extension of a delta or a length.
extendOpt(opt) ==
    IF opt >= extoptByteAddend
    THEN IF opt >= extoptWordAddend
         THEN [opt |-> extoptWordCode, ext |-> opt - extoptWordAddend]
         ELSE [opt |-> extoptByteCode, ext |-> opt - extoptByteAddend]
    ELSE [opt |-> opt, ext |-> 0]

\* Lines 555-563: byte(ext) and uint16(ext) keep the low bits.
writeExt(opt, ext) ==
    IF opt = extoptByteCode THEN <<ext % 256>>
    ELSE IF opt = extoptWordCode THEN PutUint16(ext)
    ELSE <<>>

\* Lines 548-567.
writeOptHeader(delta, length) ==
    LET d == extendOpt(delta)
        l == extendOpt(length)
    IN  <<BitOr((d.opt * 16) % 256, l.opt % 256)>>
            \o writeExt(d.opt, d.ext) \o writeExt(l.opt, l.ext)

\* Lines 505-572.
writeOpt(o, delta) ==
    LET b == toBytes(o) IN writeOptHeader(delta, Len(b)) \o b

\* Lines 574-580.
RECURSIVE writeOptsFrom(_, _)
writeOptsFrom(opts, prev) ==
    IF opts = <<>> THEN <<>>
    ELSE writeOpt(Head(opts), Head(opts).ID - prev)
             \o writeOptsFrom(Tail(opts), Head(opts).ID)
writeOpts(opts) == writeOptsFrom(opts, 0)

\* Lines 259-277: the types toBytes has a case for; on a value of any other
\* type it panics.
AcceptedTypes == {"string", "bytes", "MediaType", "int", "int32", "uint", "uint32"}
toBytesPanics(o) == o.Value.t \notin AcceptedTypes

\* Lines 574-580 and 569: what writeOpts has written when toBytes panics, the
\* options before the first one of a type it has no case for.
RECURSIVE writtenBeforePanic(_, _)
writtenBeforePanic(opts, prev) ==
    IF opts = <<>> \/ toBytesPanics(Head(opts)) THEN <<>>
    ELSE writeOpt(Head(opts), Head(opts).ID - prev)
             \o writtenBeforePanic(Tail(opts), Head(opts).ID)

\* The caller of writeOpts: a non-empty payload follows the options behind
\* the marker 0xFF, an empty one leaves no marker.
EncodeBody(opts, payload) ==
    writeOpts(opts) \o (IF payload # <<>> THEN <<255>> \o payload ELSE <<>>)

\* Lines 588-604: [opt, data, err].
parseExtOpt(opt, data) ==
    IF opt = extoptByteCode
    THEN IF Len(data) < 1 THEN [opt |-> -1, data |-> data, err |-> TRUE]
         ELSE [opt |-> data[1] + extoptByteAddend, data |-> Tail(data), err |-> FALSE]
    ELSE IF opt = extoptWordCode
    THEN IF Len(data) < 2 THEN [opt |-> -1, data |-> data, err |-> TRUE]
         ELSE [opt |-> Uint16(data) + extoptWordAddend,
               data |-> SubSeq(data, 3, Len(data)), err |-> FALSE]
    ELSE [opt |-> opt, data |-> data, err |-> FALSE]

HeaderError == [delta |-> -1, length |-> -1, data |-> <<>>, err |-> TRUE]

\* parseOptHeader taking the nibble 15 for the number 15.
parseOptHeaderAccepts15(data) ==
    LET dx == parseExtOpt(data[1] \div 16, Tail(data))
    IN  IF dx.err THEN HeaderError
        ELSE LET lx == parseExtOpt(data[1] % 16, dx.data)
             IN  IF lx.err THEN HeaderError
                 ELSE [delta |-> dx.opt, length |-> lx.opt,
                       data |-> lx.data, err |-> FALSE]

\* Lines 613-629, the header of one option: [delta, length, data, err].
parseOptHeader(data) ==
    LET delta  == data[1] \div 16
        length == data[1] % 16
    IN  IF delta = extoptError \/ length = extoptError THEN HeaderError
        ELSE LET dx == parseExtOpt(delta, Tail(data))
             IN  IF dx.err THEN HeaderError
                 ELSE LET lx == parseExtOpt(length, dx.data)
                      IN  IF lx.err THEN HeaderError
                          ELSE [delta |-> dx.opt, length |-> lx.opt,
                                data |-> lx.data, err |-> FALSE]

\* Lines 585-648: [opts, payload, err]. OptionID is a uint8 (line 129).
BodyError == [opts |-> <<>>, payload |-> <<>>, err |-> TRUE]
RECURSIVE parseBodyFrom(_, _, _)
parseBodyFrom(data, prev, opts) ==
    IF data = <<>> THEN [opts |-> opts, payload |-> <<>>, err |-> FALSE]
    ELSE IF data[1] = 255 THEN [opts |-> opts, payload |-> Tail(data), err |-> FALSE]
    ELSE LET h == parseOptHeader(data)
         IN  IF h.err THEN BodyError
             ELSE IF Len(h.data) < h.length THEN BodyError
             ELSE LET oid   == (prev + h.delta) % 256
                      opval == parseOptionValue(oid, SubSeq(h.data, 1, h.length))
                  IN  parseBodyFrom(SubSeq(h.data, h.length + 1, Len(h.data)), oid,
                                    IF opval # NilValue
                                    THEN Append(opts, [ID |-> oid, Value |-> opval])
                                    ELSE opts)
parseBody(data) == parseBodyFrom(data, 0, <<>>)

\* The options tried: every format of the registry, values of the least and
\* the greatest length, lengths and deltas on both sides of 13 and of 269.
Text(len) == StringValue(Payload(len, 0))
CodecOptions ==
    {[ID |-> 1, Value |-> BytesValue(<<>>)],
     [ID |-> 4, Value |-> BytesValue(Payload(8, 0))],
     [ID |-> 5, Value |-> BytesValue(<<>>)],
     [ID |-> 6, Value |-> UintValue(0)],
     [ID |-> 6, Value |-> UintValue(65536)],
     [ID |-> 7, Value |-> UintValue(255)],
     [ID |-> 11, Value |-> Text(0)],
     [ID |-> 11, Value |-> Text(12)],
     [ID |-> 11, Value |-> Text(13)],
     [ID |-> 12, Value |-> MediaTypeValue(50)],
     [ID |-> 12, Value |-> UintValue(256)],
     [ID |-> 14, Value |-> UintValue(16777216)],
     [ID |-> 17, Value |-> UintValue(0)],
     [ID |-> 35, Value |-> Text(268)],
     [ID |-> 35, Value |-> Text(269)],
     [ID |-> 35, Value |-> Text(1034)],
     [ID |-> 60, Value |-> UintValue(2147483647)]}

\* An option conforms to the registry: its id is known, its value has the
\* shape of the entry and a length within the entry's bounds.
Conforms(o) ==
    LET def == OptionDefs[o.ID]
    IN  /\ def.valueFormat # "unknown"
        /\ Len(toBytes(o)) >= def.minLen /\ Len(toBytes(o)) <= def.maxLen
        /\ o.Value.t \in (CASE def.valueFormat = "uint" -> {"uint32", "MediaType"}
                            [] def.valueFormat = "string" -> {"string"}
                            [] OTHER -> {"bytes"})

Ascending(opts) == \A i \in 1..(Len(opts) - 1) : opts[i].ID <= opts[i + 1].ID

CodecMessages ==
    {opts \in UNION {[1..k -> CodecOptions] : k \in 0..MaxOpts} : Ascending(opts)}

CodecPayloads == {<<>>, <<255>>, <<1, 0, 255>>}

\* The deltas and lengths whose header is written by itself.
HeaderDeltas == {0, 1, 12, 13, 14, 255, 268, 269}
HeaderLengths == {0, 1, 12, 13, 14, 268, 269, 270, 65804, 65805}

\* The integers encoded by themselves: halves on both sides of every length
\* class, up to 2^32 - 1.
IntWords ==
    {<<hi, lo>> : hi \in {0, 1, 255, 256, 32767, 32768, 65535},
                  lo \in (0..MaxLow) \cup {255, 256, 65535}}

IntIdle == iVal = <<0, 0>> /\ iBuf = <<>> /\ iOut = <<0, 0>> /\ iPc = "new"
IntInit == iVal \in IntWords /\ iBuf = <<>> /\ iOut = <<0, 0>> /\ iPc = "new"

\* encodeInt(iVal)
IntEncode ==
    /\ iPc = "new"
    /\ iBuf' = encodeWord(iVal)
    /\ iPc' = "encoded"
    /\ UNCHANGED <<iVal, iOut>>
    /\ UNCHANGED <<cOpts, cPayload, cBuf, cOut, cPc, hDelta, hLen, hBuf, hOut, hPc,
                   rItems, rTail>>
    /\ UNCHANGED notCodec

\* decodeInt(iBuf)
IntDecode ==
    /\ iPc = "encoded"
    /\ iOut' = decodeWord(iBuf)
    /\ iPc' = "decoded"
    /\ UNCHANGED <<iVal, iBuf>>
    /\ UNCHANGED <<cOpts, cPayload, cBuf, cOut, cPc, hDelta, hLen, hBuf, hOut, hPc,
                   rItems, rTail>>
    /\ UNCHANGED notCodec

\* The options a received body is built from: a delta to the previous id and
\* the bytes of a value. Which of them the registry knows depends on the ids
\* before them.
RawItems ==
    {[delta |-> 1, value |-> <<>>],
     [delta |-> 2, value |-> <<7>>],
     [delta |-> 5, value |-> <<1>>],
     [delta |-> 0, value |-> Payload(9, 0)],
     [delta |-> 13, value |-> Payload(13, 0)],
     [delta |-> 7, value |-> <<>>],
     [delta |-> 4, value |-> <<1, 2>>]}

\* What follows the options: nothing, the marker and a payload, or a header
\* that cannot be decoded (why: a nibble 15, missing extension bytes, or
\* fewer value bytes than the length), with or without bytes behind it.
NoTail == [bad |-> FALSE, why |-> "", bytes |-> <<>>, payload |-> <<>>]
RawTails ==
    {NoTail,
     [bad |-> FALSE, why |-> "", bytes |-> <<255>>, payload |-> <<>>],
     [bad |-> FALSE, why |-> "", bytes |-> <<255, 1, 240>>, payload |-> <<1, 240>>],
     [bad |-> TRUE, why |-> "nibble", bytes |-> <<240>>, payload |-> <<>>],
     [bad |-> TRUE, why |-> "nibble", bytes |-> <<15>>, payload |-> <<>>],
     [bad |-> TRUE, why |-> "nibble", bytes |-> <<31, 1, 2>>, payload |-> <<>>],
     [bad |-> TRUE, why |-> "nibble", bytes |-> <<241, 0, 255, 1>>, payload |-> <<>>],
     [bad |-> TRUE, why |-> "ext", bytes |-> <<208>>, payload |-> <<>>],
     [bad |-> TRUE, why |-> "ext", bytes |-> <<224, 1>>, payload |-> <<>>],
     [bad |-> TRUE, why |-> "ext", bytes |-> <<13>>, payload |-> <<>>],
     [bad |-> TRUE, why |-> "ext", bytes |-> <<14, 0>>, payload |-> <<>>],
     [bad |-> TRUE, why |-> "ext", bytes |-> <<221, 0>>, payload |-> <<>>],
     [bad |-> TRUE, why |-> "value", bytes |-> <<19, 1, 2>>, payload |-> <<>>],
     [bad |-> TRUE, why |-> "value", bytes |-> <<29, 0>> \o Payload(12, 0),
      payload |-> <<>>]}

\* The bytes of a received body.
RECURSIVE RawOptBytes(_)
RawOptBytes(items) ==
    IF items = <<>> THEN <<>>
    ELSE writeOptHeader(Head(items).delta, Len(Head(items).value))
             \o Head(items).value \o RawOptBytes(Tail(items))
RawBytes(items, tail) == RawOptBytes(items) \o tail.bytes

NoBody == [opts |-> <<>>, payload |-> <<>>, err |-> FALSE]
NoHeader == [delta |-> 0, length |-> 0, err |-> FALSE]

CodecIdle ==
    /\ cOpts = <<>> /\ cPayload = <<>> /\ cBuf = <<>> /\ cOut = NoBody /\ cPc = "new"
    /\ hDelta = 0 /\ hLen = 0 /\ hBuf = <<>> /\ hOut = NoHeader /\ hPc = "new"
    /\ rItems = <<>> /\ rTail = NoTail
    /\ IntIdle

\* A message to encode.
CodecInit ==
    /\ cOpts \in CodecMessages
    /\ cPayload \in CodecPayloads
    /\ cBuf = <<>> /\ cOut = NoBody /\ cPc = "new"
    /\ hDelta = 0 /\ hLen = 0 /\ hBuf = <<>> /\ hOut = NoHeader /\ hPc = "new"
    /\ rItems = <<>> /\ rTail = NoTail
    /\ IntIdle

\* The options and the payload are encoded.
CodecEncode ==
    /\ cPc = "new"
    /\ cBuf' = EncodeBody(cOpts, cPayload)
    /\ cPc' = "encoded"
    /\ UNCHANGED <<cOpts, cPayload, cOut, hDelta, hLen, hBuf, hOut, hPc, rItems, rTail>>
    /\ UNCHANGED intVars
    /\ UNCHANGED notCodec

\* parseBody(cBuf)
CodecDecode ==
    /\ cPc = "encoded"
    /\ cOut' = parseBody(cBuf)
    /\ cPc' = "decoded"
    /\ UNCHANGED <<cOpts, cPayload, cBuf, hDelta, hLen, hBuf, hOut, hPc, rItems, rTail>>
    /\ UNCHANGED intVars
    /\ UNCHANGED notCodec

\* writeOpt as far as the header, for an option at delta whose value has
\* length bytes.
HeaderWrite(delta, length) ==
    /\ hPc = "new"
    /\ hDelta' = delta /\ hLen' = length
    /\ hBuf' = writeOptHeader(delta, length)
    /\ hPc' = "written"
    /\ UNCHANGED <<cOpts, cPayload, cBuf, cOut, cPc, hOut, rItems, rTail>>
    /\ UNCHANGED intVars
    /\ UNCHANGED notCodec

\* parseBody as far as the header.
HeaderParse ==
    /\ hPc = "written"
    /\ LET h == parseOptHeader(hBuf)
       IN  hOut' = [delta |-> h.delta, length |-> h.length, err |-> h.err]
    /\ hPc' = "parsed"
    /\ UNCHANGED <<cOpts, cPayload, cBuf, cOut, cPc, hDelta, hLen, hBuf, rItems, rTail>>
    /\ UNCHANGED intVars
    /\ UNCHANGED notCodec

\* The options given to the encoder besides those of CodecOptions: values
\* longer than their entry allows, and a value of a type toBytes has no case
\* for.
BoolValue(n) == [t |-> "bool", n |-> n, b |-> <<>>]
EncodeOptions ==
    {[ID |-> 1, Value |-> BytesValue(<<>>)],
     [ID |-> 1, Value |-> BytesValue(Payload(9, 0))],
     [ID |-> 5, Value |-> BytesValue(<<1>>)],
     [ID |-> 7, Value |-> UintValue(65535)],
     [ID |-> 7, Value |-> UintValue(65536)],
     [ID |-> 11, Value |-> Text(12)],
     [ID |-> 11, Value |-> Text(256)],
     [ID |-> 11, Value |-> BoolValue(1)],
     [ID |-> 12, Value |-> MediaTypeValue(50)]}

EncodeInit ==
    /\ cOpts \in {opts \in UNION {[1..k -> EncodeOptions] : k \in 0..MaxOpts} :
                     Ascending(opts)}
    /\ cPayload \in CodecPayloads
    /\ cBuf = <<>> /\ cOut = NoBody /\ cPc = "new"
    /\ hDelta = 0 /\ hLen = 0 /\ hBuf = <<>> /\ hOut = NoHeader /\ hPc = "new"
    /\ rItems = <<>> /\ rTail = NoTail
    /\ IntIdle

\* writeOpts(buf, cOpts) and the payload: it returns nothing (line 574), or
\* panics in toBytes (line 275) with the earlier options in the buffer.
EncodeOpts ==
    /\ cPc = "new"
    /\ IF \A i \in 1..Len(cOpts) : ~toBytesPanics(cOpts[i])
       THEN cBuf' = EncodeBody(cOpts, cPayload) /\ cPc' = "encoded"
       ELSE cBuf' = writtenBeforePanic(cOpts, 0) /\ cPc' = "panicked"
    /\ UNCHANGED <<cOpts, cPayload, cOut, hDelta, hLen, hBuf, hOut, hPc, rItems, rTail>>
    /\ UNCHANGED intVars
    /\ UNCHANGED notCodec

\* A body received from a peer.
ParseInit ==
    /\ rItems \in UNION {[1..k -> RawItems] : k \in 0..MaxRawItems}
    /\ rTail \in RawTails
    /\ cBuf = RawBytes(rItems, rTail)
    /\ cOpts = <<>> /\ cPayload = <<>> /\ cOut = NoBody /\ cPc = "raw"
    /\ hDelta = 0 /\ hLen = 0 /\ hBuf = <<>> /\ hOut = NoHeader /\ hPc = "new"
    /\ IntIdle

\* Options whose deltas add up past 255, and small ones to go with them.
WideItems ==
    {[delta |-> 1, value |-> <<>>],
     [delta |-> 9, value |-> <<65>>],
     [delta |-> 12, value |-> <<>>],
     [delta |-> 250, value |-> <<>>],
     [delta |-> 255, value |-> <<65>>],
     [delta |-> 300, value |-> <<1>>]}

\* A well-formed body received from a peer, of such options.
WideInit ==
    /\ rItems \in UNION {[1..k -> WideItems] : k \in 0..MaxRawItems}
    /\ rTail \in {t \in RawTails : ~t.bad}
    /\ cBuf = RawBytes(rItems, rTail)
    /\ cOpts = <<>> /\ cPayload = <<>> /\ cOut = NoBody /\ cPc = "raw"
    /\ hDelta = 0 /\ hLen = 0 /\ hBuf = <<>> /\ hOut = NoHeader /\ hPc = "new"
    /\ IntIdle

\* parseBody(cBuf) on a received body.
ParseRaw ==
    /\ cPc = "raw"
    /\ cOut' = parseBody(cBuf)
    /\ cPc' = "decoded"
    /\ UNCHANGED <<cOpts, cPayload, cBuf, hDelta, hLen, hBuf, hOut, hPc, rItems, rTail>>
    /\ UNCHANGED intVars
    /\ UNCHANGED notCodec

\* ------------------------------------------------- claims on the codec

\* The number or the bytes of a value, whatever its type.
Content(v) == <<v.n, v.b>>

\* C9: when a message whose options ascend and conform to the registry has
\* been encoded and decoded, parseBody has returned no error, as many options
\* as were encoded, each with the id and the value that was encoded, in the
\* same order, and the payload that was encoded.
C9_RoundTrip ==
    (cPc = "decoded" /\ \A i \in 1..Len(cOpts) : Conforms(cOpts[i])) =>
        /\ ~cOut.err
        /\ Len(cOut.opts) = Len(cOpts)
        /\ \A i \in 1..Len(cOpts) :
              /\ cOut.opts[i].ID = cOpts[i].ID
              /\ Content(cOut.opts[i].Value) = Content(cOpts[i].Value)
        /\ cOut.payload = cPayload

\* The form C10 prescribes for v: the nibble, and the extension bytes.
NibbleOf(v) == IF v <= 12 THEN v ELSE IF v <= 268 THEN 13 ELSE 14
ExtensionOf(v) ==
    IF v <= 12 THEN <<>>
    ELSE IF v <= 268 THEN <<v - 13>>
    ELSE <<(v - 269) \div 256, (v - 269) % 256>>

\* C10: the header written for a delta and a length carries for each the
\* nibble v, 13 or 14 and the extension v - 13 in one byte or v - 269 in two,
\* never the nibble 15, the delta's extension before the length's, and the
\* decoder reads from it the delta and the length that were written.
C10_HeaderExact ==
    (hPc = "parsed") =>
        /\ hBuf = <<16 * NibbleOf(hDelta) + NibbleOf(hLen)>>
                      \o ExtensionOf(hDelta) \o ExtensionOf(hLen)
        /\ hBuf[1] \div 16 # 15 /\ hBuf[1] % 16 # 15
        /\ hOut = [delta |-> hDelta, length |-> hLen, err |-> FALSE]

\* The id of the i-th option of a received body, and whether the registry
\* knows that id with a value of that length.
RECURSIVE IdAt(_, _)
IdAt(items, i) == IF i = 0 THEN 0 ELSE IdAt(items, i - 1) + items[i].delta
Legal(id, value) ==
    /\ OptionDefs[id].valueFormat # "unknown"
    /\ Len(value) >= OptionDefs[id].minLen
    /\ Len(value) <= OptionDefs[id].maxLen

\* C11: when the body decoded holds, behind any options, a header with a
\* delta or length nibble 15, a nibble 13 or 14 without its extension bytes,
\* or a length greater than the bytes left, parseBody has returned an error,
\* no option (not even those before the header) and no payload.
C11_HardErrors ==
    (cPc = "decoded" /\ rTail.bad) =>
        (cOut.err /\ cOut.opts = <<>> /\ cOut.payload = <<>>)

\* A body with two legal options before a header of each kind was decoded.
C11_WitnessOf(why) ==
    /\ cPc = "decoded" /\ rTail.bad /\ rTail.why = why
    /\ Len(rItems) = 2
    /\ \A i \in 1..2 : Legal(IdAt(rItems, i), rItems[i].value)
C11_Witness ==
    /\ C11_WitnessOf("value")
    /\ Len(rTail.bytes) > 3

\* The options a body built from items holds for the registry: those of a
\* known id and a legal length, each under the sum of the deltas up to it.
Kept(items) ==
    LET ids == {i \in 1..Len(items) : Legal(IdAt(items, i), items[i].value)}
        RECURSIVE From(_)
        From(i) ==
            IF i > Len(items) THEN <<>>
            ELSE (IF i \in ids
                  THEN <<[ID |-> IdAt(items, i),
                          Value |-> parseOptionValue(IdAt(items, i), items[i].value)]>>
                  ELSE <<>>) \o From(i + 1)
    IN  From(1)

\* C12: when the body decoded is well formed, parseBody has returned no
\* error, the payload, and exactly the options of a known id and a legal
\* length, in order, each under the id the deltas give it: an option of an
\* unknown id or an illegal length is left out, and its delta still counts
\* for the ids behind it.
C12_DropsIllegal ==
    (cPc = "decoded" /\ ~rTail.bad) =>
        /\ ~cOut.err
        /\ cOut.opts = Kept(rItems)
        /\ cOut.payload = rTail.payload

\* A body of a kept option, an option of an unknown id, an option of an
\* illegal length and a payload was decoded.
C12_Witness ==
    /\ cPc = "decoded" /\ ~rTail.bad /\ rTail.payload # <<>>
    /\ Len(rItems) = 3
    /\ OptionDefs[IdAt(rItems, 1)].valueFormat = "unknown"
    /\ OptionDefs[IdAt(rItems, 2)].valueFormat # "unknown"
    /\ ~Legal(IdAt(rItems, 2), rItems[2].value)
    /\ Legal(IdAt(rItems, 3), rItems[3].value)
    /\ Len(cOut.opts) = 1

\* C21: the ids of the options decoded do not decrease, and each of them is
\* the sum of the deltas up to an option of the body: a body whose deltas
\* add up past 255 yields no option under a smaller id.
C21_IdsAreSums ==
    (cPc = "decoded" /\ ~cOut.err) =>
        /\ \A k \in 1..(Len(cOut.opts) - 1) : cOut.opts[k].ID <= cOut.opts[k + 1].ID
        /\ \A k \in 1..Len(cOut.opts) :
              \E i \in 1..Len(rItems) : IdAt(rItems, i) = cOut.opts[k].ID

\* An option whose value is longer than its registry entry allows.
TooLong(o) == ~toBytesPanics(o) /\ Len(toBytes(o)) > OptionDefs[o.ID].maxLen

\* C13: when the encoder has been given an option that is too long for its
\* registry entry, or whose value is of a type that is neither text, bytes
\* nor an integer, the encoding has failed with an error returned to the
\* caller, without a panic, and no bytes were produced for that option.
C13_EncodeRejects ==
    (cPc # "new" /\ \E i \in 1..Len(cOpts) : TooLong(cOpts[i]) \/ toBytesPanics(cOpts[i]))
        => (cPc = "failed" /\ cBuf = <<>>)

\* The number of bytes C14 prescribes for a value given by its halves.
MinimalLen(w) ==
    IF w[1] = 0 THEN (IF w[2] = 0 THEN 0 ELSE IF w[2] < 256 THEN 1 ELSE 2)
    ELSE IF w[1] < 256 THEN 3 ELSE 4

\* C14: when a 32-bit unsigned value has been encoded and decoded, the bytes
\* are as many as its size class prescribes (none for 0, one up to 255, two
\* up to 65535, three up to 16777215, four above), they do not start with a
\* zero byte, they are the low end of the value's big-endian form, and
\* decodeInt has returned the value; decodeInt of no bytes is 0.
C14_MinimalInt ==
    /\ decodeWord(<<>>) = <<0, 0>> /\ decodeInt(<<>>) = 0
    /\ (iPc = "decoded") =>
           /\ Len(iBuf) = MinimalLen(iVal)
           /\ (iBuf # <<>> => iBuf[1] # 0)
           /\ iBuf = SubSeq(PutUint16(iVal[1]) \o PutUint16(iVal[2]),
                            5 - Len(iBuf), 4)
           /\ iOut = iVal
           /\ (iVal[1] < WordLimit => decodeInt(iBuf) = iVal[1] * 65536 + iVal[2])

\* The greatest value, 2^32 - 1, was encoded and decoded.
C14_Witness == iPc = "decoded" /\ iVal = <<65535, 65535>> /\ Len(iBuf) = 4


FragLens == (0..MaxLen) \cup ((LongLen - 1)..(LongLen + 4))

FragIdle ==
    /\ fb = <<>> /\ fSegSz = 0 /\ fCrc = 0 /\ fOff = 0 /\ fIdx = 0
    /\ fSegs = <<>> /\ fPc = "idle"

\* Lines 174-176: segSz := s.Mtu(), crc := crc16.Crc16(b), idx := 0, off := 0.
FragInit ==
    /\ \E len \in FragLens, seed \in 0..MaxSeed : fb = Payload(len, seed)
    /\ fSegSz \in 5..MaxSegSz
    /\ fCrc = Crc16(fb)
    /\ fOff = 0
    /\ fIdx = 0
    /\ fSegs = <<>>
    /\ fPc = "loop"

\* Lines 185-189 and 196-200: blkLen.
FragBlkLenFirstSize(b, sz, off) == Min(sz - 4, Len(b) - off)
\* blkLen with the 4 header bytes of the first segment taken off every one.
FragBlkLenEveryStart(b, sz, off) ==
    IF off = 0 THEN Min(sz - 4, Len(b)) ELSE Min(sz - 5, Len(b) - off)
FragBlkLen(b, sz, off) ==
    IF off = 0 THEN Min(sz - 4, Len(b)) ELSE Min(sz - 1, Len(b) - off)

\* Lines 181-189 and 193-200: hdr.FragNum, a uint8; the last-fragment flag
\* COAP_LORA_LAST_FRAG is its high bit.
FragNum(b, sz, off, idx) ==
    IF off = 0
    THEN IF sz - 4 >= Len(b) THEN OrHighBit(0) ELSE 0
    ELSE IF sz - 1 >= Len(b) - off THEN OrHighBit(idx % 256) ELSE idx % 256

\* Lines 178-203: the segment: the header, then the payload slice. Only the
\* first header has Crc (-1: none).
FragSeg(b, sz, crc, off, idx) ==
    [hdr  |-> FragNum(b, sz, off, idx),
     crc  |-> IF off = 0 THEN crc ELSE -1,
     data |-> Slice(b, off, off + FragBlkLen(b, sz, off))]

\* One iteration of the loop, lines 177-228, in which s.xport.Tx succeeds.
\* (The segment is base64-encoded and wrapped in the "lora/<addr>/down"
\* envelope before it is sent; fSegs keeps it as built.)
FragSend ==
    /\ fPc = "loop" /\ fOff < Len(fb)
    /\ fSegs' = Append(fSegs, FragSeg(fb, fSegSz, fCrc, fOff, fIdx))
    /\ fOff' = fOff + FragBlkLen(fb, fSegSz, fOff)
    /\ fIdx' = fIdx + 1
    /\ UNCHANGED <<fb, fSegSz, fCrc, fPc>>
    /\ UNCHANGED notFrag

\* sendFragments going on with the next segment after s.xport.Tx failed.
FragSendFailsGoesOn ==
    /\ fPc = "loop" /\ fOff < Len(fb)
    /\ fOff' = fOff + FragBlkLen(fb, fSegSz, fOff)
    /\ fIdx' = fIdx + 1
    /\ UNCHANGED <<fb, fSegSz, fCrc, fSegs, fPc>>
    /\ UNCHANGED notFrag

\* One iteration in which s.xport.Tx fails: lines 224-227.
FragSendFails ==
    /\ fPc = "loop" /\ fOff < Len(fb)
    /\ fOff' = fOff + FragBlkLen(fb, fSegSz, fOff)
    /\ fIdx' = fIdx + 1
    /\ fPc' = "err"
    /\ UNCHANGED <<fb, fSegSz, fCrc, fSegs>>
    /\ UNCHANGED notFrag

\* Lines 177 and 229: off has reached len(b).
FragReturn ==
    /\ fPc = "loop" /\ ~(fOff < Len(fb))
    /\ fPc' = "done"
    /\ UNCHANGED <<fb, fSegSz, fCrc, fOff, fIdx, fSegs>>
    /\ UNCHANGED notFrag

\* ------------------------------------------------- claims on sendFragments

\* The payload bytes of the first k segments, in the order sent.
RECURSIVE DataOf(_, _, _)
DataOf(segs, lo, hi) ==
    IF lo > hi THEN <<>>
    ELSE IF lo = hi THEN segs[lo].data
    ELSE LET mid == (lo + hi) \div 2
         IN  DataOf(segs, lo, mid) \o DataOf(segs, mid + 1, hi)

SentBytes(segs, k) == DataOf(segs, 1, k)

\* ceil(a / b)
CeilDiv(a, b) == (a + b - 1) \div b

\* The number of segments the claim gives for a payload of len bytes.
SegCount(len, sz) ==
    IF len <= sz - 4 THEN 1 ELSE 1 + CeilDiv(len - (sz - 4), sz - 1)

\* When every send succeeded: the number of segments is SegCount, the first
\* carries segSz-4 bytes (or the whole payload), the later ones but the last
\* segSz-1, and the slices in the order sent are the payload.
SplitIsExact ==
    /\ Len(fSegs) = SegCount(Len(fb), fSegSz)
    /\ \A k \in 1..Len(fSegs) :
          /\ k = 1 => Len(fSegs[k].data) = Min(fSegSz - 4, Len(fb))
          /\ (k > 1 /\ k < Len(fSegs)) => Len(fSegs[k].data) = fSegSz - 1
          /\ (k > 1 /\ k = Len(fSegs)) => Len(fSegs[k].data) \in 1..(fSegSz - 1)
    /\ SentBytes(fSegs, Len(fSegs)) = fb

\* C5 as claimed: for every payload, the empty one included.
C5_Original == fPc = "done" => SplitIsExact

\* C5, amended: for every payload of at least one byte the split is exact; for
\* the empty payload no segment is sent.
C5_Split ==
    fPc = "done" =>
        IF Len(fb) >= 1 THEN SplitIsExact ELSE fSegs = <<>>

\* C5's case: a send of at least three segments whose last one is not full.
C5_Witness ==
    /\ fPc = "done" /\ Len(fSegs) >= 3
    /\ Len(fSegs[Len(fSegs)].data) < fSegSz - 1
    /\ Len(fSegs[1].data) = fSegSz - 4

\* C6: the k-th segment sent (k = 0, 1, ...) has k in the low 7 bits of its
\* first header byte, and the high bit of that byte is set on the segment that
\* ends the payload and on no other.
C6_Numbering ==
    \A k \in 1..Len(fSegs) :
        /\ fSegs[k].hdr % 128 = k - 1
        /\ (fSegs[k].hdr >= 128) <=> (Len(SentBytes(fSegs, k)) = Len(fb))

\* C23: sendFragments ends. Every iteration of the loop moves the offset on by
\* at least one byte and not past the end of the payload; the segment it sends
\* is the slice from the old offset to the new one, so no slice is sent
\* twice; only the first segment sent has the first-fragment header; and the
\* call returns.
C23_Terminates ==
    /\ [][fIdx' # fIdx =>
              /\ fOff' > fOff /\ fOff' <= Len(fb)
              /\ fSegs' # fSegs =>
                    /\ Len(fSegs') = Len(fSegs) + 1
                    /\ SubSeq(fSegs', 1, Len(fSegs)) = fSegs
                    /\ fSegs'[Len(fSegs')].data = Slice(fb, fOff, fOff')]_vars
    /\ [](\A k \in 1..Len(fSegs) : (fSegs[k].crc # -1) <=> (k = 1))
    /\ <>(fPc \in {"done", "err"})

\* C23's case: a call with the smallest segment size that has returned after
\* more than a hundred segments.
C23_Witness == fPc = "done" /\ fSegSz = 5 /\ Len(fSegs) > 100 /\ fOff = Len(fb)

\* --------------------------------- sessions sharing one transport's map

MapSesns == 1..NumSesns
NoOne == -1
Reader == 0

MapIdle ==
    /\ mKey = [s \in MapSesns |-> s]
    /\ mOpen = [s \in MapSesns |-> FALSE]
    /\ mCtl = [s \in MapSesns |-> "idle"]
    /\ mLoop = [s \in MapSesns |-> "none"]
    /\ mStop = [s \in MapSesns |-> FALSE]
    /\ mLock = NoOne /\ mMap = {} /\ mIn = {} /\ mRd = "idle" /\ mCalls = 0

\* The sessions are made for any targets, the same one or different ones.
MapInit ==
    /\ mKey \in [MapSesns -> MapSesns]
    /\ mOpen = [s \in MapSesns |-> FALSE]
    /\ mCtl = [s \in MapSesns |-> "idle"]
    /\ mLoop = [s \in MapSesns |-> "none"]
    /\ mStop = [s \in MapSesns |-> FALSE]
    /\ mLock = NoOne /\ mMap = {} /\ mIn = {} /\ mRd = "idle" /\ mCalls = 0

\* Open, lines 75-80: the is-open check; the call then waits for the lock.
MapOpenCall(s) ==
    /\ mCtl[s] = "idle"
    /\ mCalls < MaxMapCalls
    /\ mCalls' = mCalls + 1
    /\ mCtl' = IF mOpen[s] THEN mCtl ELSE [mCtl EXCEPT ![s] = "openLock"]
    /\ UNCHANGED <<mKey, mOpen, mLoop, mStop, mLock, mMap, mIn, mRd>>
    /\ UNCHANGED notMap

\* Line 81: s.xport.Lock().
MapOpenLock(s) ==
    /\ mCtl[s] = "openLock"
    /\ mLock = NoOne
    /\ mLock' = s
    /\ mCtl' = [mCtl EXCEPT ![s] = "openIn"]
    /\ UNCHANGED <<mKey, mOpen, mLoop, mStop, mMap, mIn, mRd, mCalls>>
    /\ UNCHANGED notMap

\* Lines 83-86: NewTransceiver fails and Open returns, the lock still held.
MapOpenTxvrFails(s) ==
    /\ mCtl[s] = "openIn"
    /\ mCtl' = [mCtl EXCEPT ![s] = "idle"]
    /\ UNCHANGED <<mKey, mOpen, mLoop, mStop, mLock, mMap, mIn, mRd, mCalls>>
    /\ UNCHANGED notMap

\* Lines 87-91: AddListener is entered.
MapAddBegin(s) ==
    /\ mCtl[s] = "openIn"
    /\ mIn' = mIn \cup {<<s, "insert">>}
    /\ mCtl' = [mCtl EXCEPT ![s] = "adding"]
    /\ UNCHANGED <<mKey, mOpen, mLoop, mStop, mLock, mMap, mRd, mCalls>>
    /\ UNCHANGED notMap

\* Lines 91-123: AddListener returns. A key already in the map is an error,
\* and Open returns with the lock still held (lines 92-95); otherwise the
\* lock is released, the loop started and the session open.
MapAddEnd(s) ==
    /\ mCtl[s] = "adding"
    /\ mIn' = mIn \ {<<s, "insert">>}
    /\ mCtl' = [mCtl EXCEPT ![s] = "idle"]
    /\ IF \A e \in mMap : e[1] # mKey[s]
       THEN /\ mMap' = mMap \cup {<<mKey[s], s>>}
            /\ mLock' = NoOne
            /\ mLoop' = [mLoop EXCEPT ![s] = "run"]
            /\ mOpen' = [mOpen EXCEPT ![s] = TRUE]
       ELSE UNCHANGED <<mMap, mLock, mLoop, mOpen>>
    /\ UNCHANGED <<mKey, mStop, mRd, mCalls>>
    /\ UNCHANGED notMap

\* Close, lines 127-137: up to the wait for the loop.
MapCloseCall(s) ==
    /\ mCtl[s] = "idle"
    /\ mOpen[s]
    /\ mOpen' = [mOpen EXCEPT ![s] = FALSE]
    /\ mStop' = [mStop EXCEPT ![s] = TRUE]
    /\ mCtl' = [mCtl EXCEPT ![s] = "closeWait"]
    /\ UNCHANGED <<mKey, mLoop, mLock, mMap, mIn, mRd, mCalls>>
    /\ UNCHANGED notMap

\* Lines 117-119: the loop takes the stop branch and returns.
MapLoopStop(s) ==
    /\ mLoop[s] = "run"
    /\ mStop[s]
    /\ mLoop' = [mLoop EXCEPT ![s] = "exit"]
    /\ UNCHANGED <<mKey, mOpen, mCtl, mStop, mLock, mMap, mIn, mRd, mCalls>>
    /\ UNCHANGED notMap

\* Line 101: the deferred RemoveListener is entered; the loop takes no lock.
MapRemoveBegin(s) ==
    /\ mLoop[s] = "exit"
    /\ mIn' = mIn \cup {<<s, "remove">>}
    /\ mLoop' = [mLoop EXCEPT ![s] = "removing"]
    /\ UNCHANGED <<mKey, mOpen, mCtl, mStop, mLock, mMap, mRd, mCalls>>
    /\ UNCHANGED notMap

\* Lines 100-101: RemoveListener returns, then wg.Done().
MapRemoveEnd(s) ==
    /\ mLoop[s] = "removing"
    /\ mIn' = mIn \ {<<s, "remove">>}
    /\ mMap' = {e \in mMap : e[2] # s}
    /\ mLoop' = [mLoop EXCEPT ![s] = "none"]
    /\ UNCHANGED <<mKey, mOpen, mCtl, mStop, mLock, mRd, mCalls>>
    /\ UNCHANGED notMap

\* Lines 137-141: wg.Wait() ends and Close returns.
MapCloseReturn(s) ==
    /\ mCtl[s] = "closeWait"
    /\ mLoop[s] = "none"
    /\ mStop' = [mStop EXCEPT ![s] = FALSE]
    /\ mCtl' = [mCtl EXCEPT ![s] = "idle"]
    /\ UNCHANGED <<mKey, mOpen, mLoop, mLock, mMap, mIn, mRd, mCalls>>
    /\ UNCHANGED notMap

\* The inbound reader takes the transport's lock and looks up the listener
\* of a frame's source address.
MapLookBegin ==
    /\ mRd = "idle"
    /\ mLock = NoOne
    /\ mCalls < MaxMapCalls
    /\ mCalls' = mCalls + 1
    /\ mLock' = Reader
    /\ mIn' = mIn \cup {<<Reader, "lookup">>}
    /\ mRd' = "looking"
    /\ UNCHANGED <<mKey, mOpen, mCtl, mLoop, mStop, mMap>>
    /\ UNCHANGED notMap

\* The lookup returns and the reader releases the lock.
MapLookEnd ==
    /\ mRd = "looking"
    /\ mLock' = NoOne
    /\ mIn' = mIn \ {<<Reader, "lookup">>}
    /\ mRd' = "idle"
    /\ UNCHANGED <<mKey, mOpen, mCtl, mLoop, mStop, mMap, mCalls>>
    /\ UNCHANGED notMap

\* C15: at most one of Open's insert, the loop's remove and the reader's
\* lookup is inside the Dispatch Map at any time.
C15_MapExclusive == Cardinality(mIn) <= 1

\* C22: a session that is not inside Open does not hold the transport's lock:
\* whichever way Open returned, it has released the lock it took.
C22_OpenReleasesLock ==
    \A s \in MapSesns : mCtl[s] \in {"idle", "closeWait"} => mLock # s

\* C17: once Close has found the session open, it returns: the loop, whether
\* it was blocked or dispatching, takes the stop branch, runs its deferred
\* calls, and the wait in Close ends.
C17_CloseReturns ==
    (ctlPc = "closeAbort") ~> (ctlPc = "idle" /\ ctlRet = "ok" /\ wg = 0)

\* Close waits for a loop that still has a message and an MTU to take.
C17_Witness ==
    /\ ctlPc = "closeWait" /\ wg > 0
    /\ \E g \in Gens : loopPc[g] = "run"
    /\ lsn.msgs > 0 /\ lsn.mtus # <<>>

\* ----------------------------------- two transmit calls on one session

Callers == {1, 2}

TwoIdle ==
    /\ tb = [c \in Callers |-> <<>>]
    /\ tSz = [c \in Callers |-> 0]
    /\ tOff = [c \in Callers |-> 0]
    /\ tIdx = [c \in Callers |-> 0]
    /\ tPc = [c \in Callers |-> "idle"]
    /\ wire = <<>>

\* The session is open and each caller has a request.
TwoInit ==
    /\ tb \in [Callers -> {Payload(len, 0) : len \in 0..MaxTwoLen}]
    /\ tSz = [c \in Callers |-> 0]
    /\ tOff = [c \in Callers |-> 0]
    /\ tIdx = [c \in Callers |-> 0]
    /\ tPc = [c \in Callers |-> "idle"]
    /\ wire = <<>>

\* TxNmpOnce / TxCoapOnce, lines 235-241 and 253-258, on the open session.
TwoTxCall(c) ==
    /\ tPc[c] = "idle"
    /\ tPc' = [tPc EXCEPT ![c] = "checked"]
    /\ UNCHANGED <<tb, tSz, tOff, tIdx, wire>>
    /\ UNCHANGED notTwo

\* Lines 242 and 259: the transceiver calls the send function with the
\* encoded request; lines 174-176 of sendFragments.
TwoTxStart(c) ==
    /\ tPc[c] = "checked"
    /\ tSz' = [tSz EXCEPT ![c] = CfgSegSz]
    /\ tOff' = [tOff EXCEPT ![c] = 0]
    /\ tIdx' = [tIdx EXCEPT ![c] = 0]
    /\ tPc' = [tPc EXCEPT ![c] = "loop"]
    /\ UNCHANGED <<tb, wire>>
    /\ UNCHANGED notTwo

\* One iteration of the loop, lines 177-228, in which s.xport.Tx succeeds.
TwoSend(c) ==
    /\ tPc[c] = "loop" /\ tOff[c] < Len(tb[c])
    /\ wire' = Append(wire, [who |-> c,
                             hdr |-> FragNum(tb[c], tSz[c], tOff[c], tIdx[c])])
    /\ tOff' = [tOff EXCEPT ![c] = @ + FragBlkLen(tb[c], tSz[c], @)]
    /\ tIdx' = [tIdx EXCEPT ![c] = @ + 1]
    /\ UNCHANGED <<tb, tSz, tPc>>
    /\ UNCHANGED notTwo

\* One iteration in which s.xport.Tx fails: lines 224-227.
TwoSendFails(c) ==
    /\ tPc[c] = "loop" /\ tOff[c] < Len(tb[c])
    /\ tOff' = [tOff EXCEPT ![c] = @ + FragBlkLen(tb[c], tSz[c], @)]
    /\ tIdx' = [tIdx EXCEPT ![c] = @ + 1]
    /\ tPc' = [tPc EXCEPT ![c] = "err"]
    /\ UNCHANGED <<tb, tSz, wire>>
    /\ UNCHANGED notTwo

\* Lines 177 and 229: off has reached len(b).
TwoReturn(c) ==
    /\ tPc[c] = "loop" /\ ~(tOff[c] < Len(tb[c]))
    /\ tPc' = [tPc EXCEPT ![c] = "done"]
    /\ UNCHANGED <<tb, tSz, tOff, tIdx, wire>>
    /\ UNCHANGED notTwo

\* C16: of the segments handed to the transport, those of one call carry
\* strictly increasing fragment numbers, and between two segments of one
\* call there is no segment of the other call.
C16_NotInterleaved ==
    /\ \A i, j \in 1..Len(wire) :
          (i < j /\ wire[i].who = wire[j].who)
              => wire[i].hdr % 128 < wire[j].hdr % 128
    /\ \A i, j, k \in 1..Len(wire) :
          (i < j /\ j < k /\ wire[i].who = wire[k].who)
              => wire[j].who = wire[i].who

\* C18: a send has failed when the loop has counted more segments than the
\* transport took. From the step in which the send of segment k fails,
\* sendFragments has returned the error, the transport has segments 0..k-1
\* and gets no further one; a segment it took is never taken back.
C18_FailStops ==
    [][/\ (fIdx' > Len(fSegs')) =>
              (fPc' = "err" /\ Len(fSegs') = fIdx' - 1 /\ fSegs' = fSegs)
       /\ Len(fSegs') >= Len(fSegs)
       /\ SubSeq(fSegs', 1, Len(fSegs)) = fSegs]_vars

\* The send of the third segment failed after two were sent.
C18_Witness == fPc = "err" /\ fIdx = 3 /\ Len(fSegs) = 2 /\ fOff < Len(fb)

\* ------------------------------------------------------------- the session

\* NewListener: empty queues, not closed.
NewListener == [msgs |-> 0, mtus |-> <<>>, closed |-> FALSE]

SesnInit ==
    /\ isOpen = FALSE
    /\ txvr = 0
    /\ mtu = 0
    /\ segSz \in {0, CfgSegSz}
    /\ listener = 0
    /\ wg = 0
    /\ stopChan = "nil"
    /\ txvrStopped = FALSE
    /\ lsn = NewListener
    /\ listenMap \in {0, -1}
    /\ xportLock = FALSE
    /\ nOpen = 0
    /\ ctlPc = "idle"
    /\ ctlRet = "none"
    /\ loopPc = [g \in Gens |-> "none"]
    /\ txPc = "idle"
    /\ txRef = 0
    /\ pending = "none"
    /\ txRet = "none"
    /\ txSent = FALSE
    /\ lastMtuRx = 0
    /\ prevMtuRx = -1
    /\ panicked = FALSE
    /\ closeInTx = FALSE

\* The session as constructed, with no override and an empty Dispatch Map.
SesnIdle == SesnInit /\ segSz = 0 /\ listenMap = 0

\* LoraSesn.Mtu
MtuIgnoresUpdate == IF segSz # 0 THEN segSz ELSE MinMtu
Mtu == IF segSz # 0 THEN segSz ELSE IF mtu # 0 THEN mtu ELSE MinMtu

\* Transceiver.ErrorAll on s.txvr: a request pending in that transceiver
\* completes with the error.
ErrorAll == IF txRef = txvr /\ pending = "wait" THEN "err" ELSE pending

\* Transceiver.DispatchCoap on s.txvr: a request pending in that transceiver
\* completes with the response; other traffic is dropped.
DispatchCoap == IF txRef = txvr /\ pending = "wait" THEN "rsp" ELSE pending

\* Open, lines 75-81: the is-open check, then the wait for the transport lock.
OpenCallNoCheck ==
    /\ ~panicked /\ ctlPc = "idle"
    /\ nOpen < MaxOpens
    /\ ctlPc' = "openLock"
    /\ ctlRet' = "none"
    /\ UNCHANGED notSesn
    /\ UNCHANGED <<isOpen, txvr, mtu, segSz, listener, wg, stopChan, txvrStopped, lsn,
                   listenMap, xportLock, nOpen, loopPc, txPc, txRef, pending, txRet,
                   txSent, lastMtuRx, prevMtuRx, panicked, closeInTx>>
OpenCall ==
    /\ ~panicked /\ ctlPc = "idle"
    /\ IF isOpen
       THEN /\ ctlRet' = "alreadyOpen"
            /\ UNCHANGED ctlPc
       ELSE /\ nOpen < MaxOpens
            /\ ctlPc' = "openLock"
            /\ ctlRet' = "none"
    /\ UNCHANGED notSesn
    /\ UNCHANGED <<isOpen, txvr, mtu, segSz, listener, wg, stopChan, txvrStopped, lsn,
                   listenMap, xportLock, nOpen, loopPc, txPc, txRef, pending, txRet,
                   txSent, lastMtuRx, prevMtuRx, panicked, closeInTx>>

\* Open, lines 81-86: the lock is taken and NewTransceiver fails. The lock is
\* not released.
OpenTxvrFails ==
    /\ ~panicked /\ ctlPc = "openLock" /\ ~xportLock
    /\ xportLock' = TRUE
    /\ nOpen' = nOpen + 1
    /\ ctlPc' = "idle"
    /\ ctlRet' = "txvrErr"
    /\ UNCHANGED notSesn
    /\ UNCHANGED <<isOpen, txvr, mtu, segSz, listener, wg, stopChan, txvrStopped, lsn,
                   listenMap, loopPc, txPc, txRef, pending, txRet, txSent, lastMtuRx, prevMtuRx,
                   panicked, closeInTx>>

\* Open, lines 81-95: the lock is taken, the transceiver, the stop channel and
\* the listener are made, and AddListener fails because the key is taken.
\* The transceiver is stopped; the lock is not released.
OpenListenFails ==
    /\ ~panicked /\ ctlPc = "openLock" /\ ~xportLock
    /\ listenMap # 0
    /\ xportLock' = TRUE
    /\ nOpen' = nOpen + 1
    /\ txvr' = nOpen'
    /\ stopChan' = "open"
    /\ listener' = nOpen'
    /\ lsn' = NewListener
    /\ txvrStopped' = TRUE
    /\ ctlPc' = "idle"
    /\ ctlRet' = "listenErr"
    /\ UNCHANGED notSesn
    /\ UNCHANGED <<isOpen, mtu, segSz, wg, listenMap, loopPc, txPc, txRef, pending,
                   txRet, txSent, lastMtuRx, prevMtuRx, panicked, closeInTx>>

\* Open, lines 81-124: the successful path.
OpenOk ==
    /\ ~panicked /\ ctlPc = "openLock" /\ ~xportLock
    /\ listenMap = 0
    /\ nOpen' = nOpen + 1
    /\ txvr' = nOpen'
    /\ txvrStopped' = FALSE
    /\ stopChan' = "open"
    /\ listener' = nOpen'
    /\ lsn' = NewListener
    /\ listenMap' = nOpen'
    /\ xportLock' = FALSE
    /\ wg' = wg + 1
    /\ loopPc' = [loopPc EXCEPT ![nOpen'] = "run"]
    /\ isOpen' = TRUE
    /\ ctlPc' = "idle"
    /\ ctlRet' = "ok"
    /\ UNCHANGED notSesn
    /\ UNCHANGED <<mtu, segSz, txPc, txRef, pending, txRet, txSent, lastMtuRx, prevMtuRx,
                   panicked, closeInTx>>

\* Close, lines 127-132: the is-open check, then isOpen is cleared.
CloseCallNoCheck ==
    /\ ~panicked /\ ctlPc = "idle"
    /\ isOpen' = FALSE
    /\ ctlPc' = "closeAbort"
    /\ ctlRet' = "none"
    /\ UNCHANGED notSesn
    /\ UNCHANGED <<txvr, mtu, segSz, listener, wg, stopChan, txvrStopped, lsn,
                   listenMap, xportLock, nOpen, loopPc, txPc, txRef, pending, txRet,
                   txSent, lastMtuRx, prevMtuRx, panicked, closeInTx>>
CloseCall ==
    /\ ~panicked /\ ctlPc = "idle"
    /\ IF ~isOpen
       THEN /\ ctlRet' = "notOpen"
            /\ UNCHANGED <<ctlPc, isOpen>>
       ELSE /\ isOpen' = FALSE
            /\ ctlPc' = "closeAbort"
            /\ ctlRet' = "none"
    /\ UNCHANGED notSesn
    /\ UNCHANGED <<txvr, mtu, segSz, listener, wg, stopChan, txvrStopped, lsn,
                   listenMap, xportLock, nOpen, loopPc, txPc, txRef, pending, txRet,
                   txSent, lastMtuRx, prevMtuRx, panicked, closeInTx>>

\* Close, lines 133-136: ErrorAll, Stop, close(stopChan), listener.Close().
\* A nil s.txvr or s.listener is dereferenced.
CloseAbort ==
    /\ ~panicked /\ ctlPc = "closeAbort"
    /\ IF txvr = 0 \/ listener = 0 \/ stopChan # "open"
       THEN /\ panicked' = TRUE
            /\ UNCHANGED <<pending, txvrStopped, stopChan, lsn, ctlPc, closeInTx>>
       ELSE /\ pending' = ErrorAll
            /\ txvrStopped' = TRUE
            /\ stopChan' = "closed"
            /\ lsn' = [lsn EXCEPT !.closed = TRUE]
            /\ ctlPc' = "closeWait"
            /\ closeInTx' = (closeInTx \/ txPc = "checked"
                                       \/ (txPc = "wait" /\ pending = "wait"))
            /\ UNCHANGED panicked
    /\ UNCHANGED notSesn
    /\ UNCHANGED <<isOpen, txvr, mtu, segSz, listener, wg, listenMap, xportLock,
                   nOpen, ctlRet, loopPc, txPc, txRef, txRet, txSent, lastMtuRx, prevMtuRx>>

\* Close, lines 137-141: wg.Wait() returns, the stop channel and the
\* transceiver are forgotten.
CloseReturnNoWait ==
    /\ ~panicked /\ ctlPc = "closeWait"
    /\ stopChan' = "nil"
    /\ txvr' = 0
    /\ ctlPc' = "idle"
    /\ ctlRet' = "ok"
    /\ UNCHANGED notSesn
    /\ UNCHANGED <<isOpen, mtu, segSz, listener, wg, txvrStopped, lsn, listenMap,
                   xportLock, nOpen, loopPc, txPc, txRef, pending, txRet, txSent,
                   lastMtuRx, prevMtuRx, panicked, closeInTx>>
CloseReturn ==
    /\ ~panicked /\ ctlPc = "closeWait"
    /\ wg = 0
    /\ stopChan' = "nil"
    /\ txvr' = 0
    /\ ctlPc' = "idle"
    /\ ctlRet' = "ok"
    /\ UNCHANGED notSesn
    /\ UNCHANGED <<isOpen, mtu, segSz, listener, wg, txvrStopped, lsn, listenMap,
                   xportLock, nOpen, loopPc, txPc, txRef, pending, txRet, txSent,
                   lastMtuRx, prevMtuRx, panicked, closeInTx>>

\* The background goroutine, lines 105-108: a message is taken from
\* s.listener.MsgChan and handed to s.txvr.DispatchCoap.
LoopMsg(g) ==
    /\ ~panicked /\ loopPc[g] = "run"
    /\ listener # 0 /\ lsn.msgs > 0
    /\ lsn' = [lsn EXCEPT !.msgs = @ - 1]
    /\ IF txvr = 0
       THEN /\ panicked' = TRUE
            /\ UNCHANGED pending
       ELSE /\ pending' = DispatchCoap
            /\ UNCHANGED panicked
    /\ UNCHANGED notSesn
    /\ UNCHANGED <<isOpen, txvr, mtu, segSz, listener, wg, stopChan, txvrStopped,
                   listenMap, xportLock, nOpen, ctlPc, ctlRet, loopPc, txPc, txRef,
                   txRet, txSent, lastMtuRx, prevMtuRx, closeInTx>>

\* The background goroutine, lines 109-116: an MTU is taken from
\* s.listener.MtuChan and stored in s.mtu.
LoopMtuKeepsFirst(g) ==
    /\ ~panicked /\ loopPc[g] = "run"
    /\ listener # 0 /\ lsn.mtus # <<>>
    /\ mtu' = IF mtu = 0 THEN Head(lsn.mtus) ELSE mtu
    /\ lastMtuRx' = Head(lsn.mtus)
    /\ prevMtuRx' = lastMtuRx
    /\ lsn' = [lsn EXCEPT !.mtus = Tail(@)]
    /\ UNCHANGED notSesn
    /\ UNCHANGED <<isOpen, txvr, segSz, listener, wg, stopChan, txvrStopped,
                   listenMap, xportLock, nOpen, ctlPc, ctlRet, loopPc, txPc, txRef,
                   pending, txRet, txSent, panicked, closeInTx>>
LoopMtu(g) ==
    /\ ~panicked /\ loopPc[g] = "run"
    /\ listener # 0 /\ lsn.mtus # <<>>
    /\ mtu' = Head(lsn.mtus)
    /\ lastMtuRx' = Head(lsn.mtus)
    /\ prevMtuRx' = lastMtuRx
    /\ lsn' = [lsn EXCEPT !.mtus = Tail(@)]
    /\ UNCHANGED notSesn
    /\ UNCHANGED <<isOpen, txvr, segSz, listener, wg, stopChan, txvrStopped,
                   listenMap, xportLock, nOpen, ctlPc, ctlRet, loopPc, txPc, txRef,
                   pending, txRet, txSent, panicked, closeInTx>>

\* The background goroutine, lines 117-118: the stop channel is closed and the
\* goroutine returns; its deferred calls follow.
LoopStop(g) ==
    /\ ~panicked /\ loopPc[g] = "run"
    /\ stopChan = "closed"
    /\ loopPc' = [loopPc EXCEPT ![g] = "defer1"]
    /\ UNCHANGED notSesn
    /\ UNCHANGED <<isOpen, txvr, mtu, segSz, listener, wg, stopChan, txvrStopped, lsn,
                   listenMap, xportLock, nOpen, ctlPc, ctlRet, txPc, txRef, pending,
                   txRet, txSent, lastMtuRx, prevMtuRx, panicked, closeInTx>>

\* Line 101, the deferred RemoveListener(s.listener): its argument is the
\* listener of the Open that started the goroutine.
LoopRemoveListener(g) ==
    /\ ~panicked /\ loopPc[g] = "defer1"
    /\ listenMap' = IF listenMap = g THEN 0 ELSE listenMap
    /\ loopPc' = [loopPc EXCEPT ![g] = "defer2"]
    /\ UNCHANGED notSesn
    /\ UNCHANGED <<isOpen, txvr, mtu, segSz, listener, wg, stopChan, txvrStopped, lsn,
                   xportLock, nOpen, ctlPc, ctlRet, txPc, txRef, pending, txRet,
                   txSent, lastMtuRx, prevMtuRx, panicked, closeInTx>>

\* The goroutine ending without wg.Done().
LoopDoneKeepsCount(g) ==
    /\ ~panicked /\ loopPc[g] = "defer2"
    /\ UNCHANGED wg
    /\ loopPc' = [loopPc EXCEPT ![g] = "done"]
    /\ UNCHANGED notSesn
    /\ UNCHANGED <<isOpen, txvr, mtu, segSz, listener, stopChan, txvrStopped, lsn,
                   listenMap, xportLock, nOpen, ctlPc, ctlRet, txPc, txRef, pending,
                   txRet, txSent, lastMtuRx, prevMtuRx, panicked, closeInTx>>

\* Line 100, the deferred wg.Done().
LoopDone(g) ==
    /\ ~panicked /\ loopPc[g] = "defer2"
    /\ wg' = wg - 1
    /\ loopPc' = [loopPc EXCEPT ![g] = "done"]
    /\ UNCHANGED notSesn
    /\ UNCHANGED <<isOpen, txvr, mtu, segSz, listener, stopChan, txvrStopped, lsn,
                   listenMap, xportLock, nOpen, ctlPc, ctlRet, txPc, txRef, pending,
                   txRet, txSent, lastMtuRx, prevMtuRx, panicked, closeInTx>>

\* TxNmpOnce / TxCoapOnce, lines 235-237 and 253-255: the is-open check.
TxCallNoCheck ==
    /\ ~panicked /\ txPc = "idle"
    /\ closeInTx' = FALSE
    /\ txSent' = FALSE
    /\ txPc' = "checked"
    /\ txRet' = "none"
    /\ UNCHANGED notSesn
    /\ UNCHANGED <<isOpen, txvr, mtu, segSz, listener, wg, stopChan, txvrStopped, lsn,
                   listenMap, xportLock, nOpen, ctlPc, ctlRet, loopPc, txRef, pending,
                   lastMtuRx, prevMtuRx, panicked>>
TxCall ==
    /\ ~panicked /\ txPc = "idle"
    /\ closeInTx' = FALSE
    /\ txSent' = FALSE
    /\ IF ~isOpen
       THEN /\ txRet' = "notOpenErr"
            /\ UNCHANGED txPc
       ELSE /\ txPc' = "checked"
            /\ txRet' = "none"
    /\ UNCHANGED notSesn
    /\ UNCHANGED <<isOpen, txvr, mtu, segSz, listener, wg, stopChan, txvrStopped, lsn,
                   listenMap, xportLock, nOpen, ctlPc, ctlRet, loopPc, txRef, pending,
                   lastMtuRx, prevMtuRx, panicked>>

\* Lines 242 and 259: s.txvr.TxNmp / s.txvr.TxOic. A nil s.txvr is
\* dereferenced; otherwise the request is registered as pending in that
\* transceiver and the send function (sendFragments) is called.
TxStart ==
    /\ ~panicked /\ txPc = "checked"
    /\ IF txvr = 0
       THEN /\ panicked' = TRUE
            /\ txPc' = "dead"
            /\ txRet' = "nilPanic"
            /\ UNCHANGED <<txRef, pending, txSent>>
       ELSE /\ txRef' = txvr
            /\ pending' = "wait"
            /\ txSent' = TRUE
            /\ txPc' = "wait"
            /\ UNCHANGED <<panicked, txRet>>
    /\ UNCHANGED notSesn
    /\ UNCHANGED <<isOpen, txvr, mtu, segSz, listener, wg, stopChan, txvrStopped, lsn,
                   listenMap, xportLock, nOpen, ctlPc, ctlRet, loopPc, lastMtuRx, prevMtuRx,
                   closeInTx>>

\* The transceiver's wait ends with the response or with the error ErrorAll
\* gave to the pending request.
TxResolve ==
    /\ ~panicked /\ txPc = "wait"
    /\ pending \in {"rsp", "err"}
    /\ txRet' = IF pending = "rsp" THEN "rsp" ELSE "closedErr"
    /\ pending' = "none"
    /\ txPc' = "idle"
    /\ UNCHANGED notSesn
    /\ UNCHANGED <<isOpen, txvr, mtu, segSz, listener, wg, stopChan, txvrStopped, lsn,
                   listenMap, xportLock, nOpen, ctlPc, ctlRet, loopPc, txRef, txSent,
                   lastMtuRx, prevMtuRx, panicked, closeInTx>>

\* The transceiver's wait ends with the timeout.
TxTimeout ==
    /\ ~panicked /\ txPc = "wait"
    /\ pending = "wait"
    /\ txRet' = "timeout"
    /\ pending' = "none"
    /\ txPc' = "idle"
    /\ UNCHANGED notSesn
    /\ UNCHANGED <<isOpen, txvr, mtu, segSz, listener, wg, stopChan, txvrStopped, lsn,
                   listenMap, xportLock, nOpen, ctlPc, ctlRet, loopPc, txRef, txSent,
                   lastMtuRx, prevMtuRx, panicked, closeInTx>>

\* The inbound reader finds the listener registered under the session's key
\* and queues a decoded message on it. A listener s.listener no longer points
\* to has no consumer: what is queued on it is never read.
RdMsg ==
    /\ ~panicked
    /\ listenMap > 0 /\ listenMap = listener
    /\ ~lsn.closed /\ lsn.msgs < MaxQueue
    /\ lsn' = [lsn EXCEPT !.msgs = @ + 1]
    /\ UNCHANGED notSesn
    /\ UNCHANGED <<isOpen, txvr, mtu, segSz, listener, wg, stopChan, txvrStopped,
                   listenMap, xportLock, nOpen, ctlPc, ctlRet, loopPc, txPc, txRef,
                   pending, txRet, txSent, lastMtuRx, prevMtuRx, panicked, closeInTx>>

\* The inbound reader queues an MTU update on that listener.
RdMtu(v) ==
    /\ ~panicked
    /\ listenMap > 0 /\ listenMap = listener
    /\ ~lsn.closed /\ Len(lsn.mtus) < MaxQueue
    /\ lsn' = [lsn EXCEPT !.mtus = Append(@, v)]
    /\ UNCHANGED notSesn
    /\ UNCHANGED <<isOpen, txvr, mtu, segSz, listener, wg, stopChan, txvrStopped,
                   listenMap, xportLock, nOpen, ctlPc, ctlRet, loopPc, txPc, txRef,
                   pending, txRet, txSent, lastMtuRx, prevMtuRx, panicked, closeInTx>>

\* ------------------------------------------------------ claims on the session

\* What a rejected call must leave alone.
Lifecycle == <<isOpen, txvr, listener, stopChan, listenMap>>

\* C1: every operation is gated by the session's state. Open goes on only on
\* a session that is not open and Close and the transmit calls only on an open
\* one; a call that returns the already-open or the not-open error was made in
\* the state that error names, has sent nothing, and leaves isOpen, the
\* transceiver, the listener, the stop signal and the Dispatch Map unchanged.
C1_Gated ==
    [][ /\ (ctlPc = "idle" /\ ctlPc' = "openLock") => ~isOpen
        /\ (ctlPc = "idle" /\ ctlPc' = "closeAbort") => isOpen
        /\ (txPc = "idle" /\ txPc' = "checked") => isOpen
        /\ (ctlRet' = "alreadyOpen" /\ ctlRet # "alreadyOpen")
              => isOpen /\ ctlPc' = "idle" /\ UNCHANGED Lifecycle
        /\ (ctlRet' = "notOpen" /\ ctlRet # "notOpen")
              => ~isOpen /\ ctlPc' = "idle" /\ UNCHANGED Lifecycle
        /\ (txRet' = "notOpenErr" /\ txRet # "notOpenErr")
              => ~isOpen /\ ~txSent' /\ txPc' = "idle" /\ UNCHANGED Lifecycle
      ]_vars

\* C1's case: after one Open and one Close, a Close and a transmit call were
\* both rejected.
C1_Witness ==
    /\ nOpen = 1 /\ loopPc[1] = "done" /\ ~isOpen
    /\ ctlRet = "notOpen" /\ txRet = "notOpenErr" /\ ~txSent

\* Close has returned and no other call of the controlling thread followed.
CloseReturned == ctlPc = "idle" /\ ctlRet = "ok" /\ ~isOpen

\* C2: once Close has returned, every background loop has exited and the
\* session's listener is no longer in the Dispatch Map, and from then on no
\* step takes a message or an MTU from the listener's queues, completes a
\* request by dispatch or changes s.mtu.
C2_ClosedIsQuiet ==
    /\ [](CloseReturned =>
            /\ \A g \in Gens : loopPc[g] \in {"none", "done"}
            /\ wg = 0
            /\ listenMap # listener)
    /\ [][CloseReturned =>
            /\ lsn'.msgs >= lsn.msgs
            /\ Len(lsn'.mtus) >= Len(lsn.mtus)
            /\ mtu' = mtu
            /\ (pending' = "rsp" => pending = "rsp")]_vars

\* C2's case: Close returned while a message and an MTU update were still
\* queued on the listener.
C2_Witness == CloseReturned /\ lsn.msgs > 0 /\ lsn.mtus # <<>>

\* C3: a transmit call that was in flight when Close aborted the transceiver
\* ends with the "closed" error.
C3_TxEndsClosed ==
    (closeInTx /\ txPc \in {"idle", "dead"}) => txRet = "closedErr"

\* C4: Mtu() is the configured segment size when that is not zero, otherwise
\* the value most recently received on the MTU queue when that is not zero,
\* otherwise the transport's minimum.
C4_MtuIsLatest ==
    Mtu = IF segSz # 0 THEN segSz
          ELSE IF lastMtuRx # 0 THEN lastMtuRx
          ELSE MinMtu

\* C4's case: no override, and two updates were received of which the older
\* is the larger; Mtu() is the newer.
C4_Witness ==
    segSz = 0 /\ prevMtuRx > lastMtuRx /\ lastMtuRx > 0 /\ Mtu = lastMtuRx

Init == SesnInit /\ FragIdle /\ SerIdle /\ MapIdle /\ TwoIdle /\ WayIdle /\ CodecIdle

Next ==
    \/ OpenCall
    \/ OpenTxvrFails
    \/ OpenListenFails
    \/ OpenOk
    \/ CloseCall
    \/ CloseAbort
    \/ CloseReturn
    \/ \E g \in Gens : LoopMsg(g)
    \/ \E g \in Gens : LoopMtu(g)
    \/ \E g \in Gens : LoopStop(g)
    \/ \E g \in Gens : LoopRemoveListener(g)
    \/ \E g \in Gens : LoopDone(g)
    \/ TxCall
    \/ TxStart
    \/ TxResolve
    \/ TxTimeout
    \/ RdMsg
    \/ \E v \in MtuVals : RdMtu(v)

Spec == Init /\ [][Next]_vars

\* Open, Close, the loop and the inbound reader, without transmit calls (which
\* touch neither the stop channel, the wait group nor the listener), under
\* the scheduling the claims on progress rest on: the thread in Close keeps
\* running, and the loop's select, which picks at random among the branches
\* that are ready, takes a branch that stays ready; the loop's deferred calls
\* run once it has returned.
NextClose ==
    \/ OpenCall
    \/ OpenTxvrFails
    \/ OpenListenFails
    \/ OpenOk
    \/ CloseCall
    \/ CloseAbort
    \/ CloseReturn
    \/ \E g \in Gens : LoopMsg(g)
    \/ \E g \in Gens : LoopMtu(g)
    \/ \E g \in Gens : LoopStop(g)
    \/ \E g \in Gens : LoopRemoveListener(g)
    \/ \E g \in Gens : LoopDone(g)
    \/ RdMsg
    \/ \E v \in MtuVals : RdMtu(v)

Fairness ==
    /\ WF_vars(CloseAbort)
    /\ WF_vars(CloseReturn)
    /\ \A g \in Gens :
          /\ WF_vars(LoopStop(g))
          /\ WF_vars(LoopRemoveListener(g))
          /\ WF_vars(LoopDone(g))

SpecClose == Init /\ [][NextClose]_vars /\ Fairness

\* One call of sendFragments, for every payload and segment size tried.
InitFrag == SesnIdle /\ FragInit /\ SerIdle /\ MapIdle /\ TwoIdle /\ WayIdle /\ CodecIdle

NextFrag ==
    \/ FragSend
    \/ FragSendFails
    \/ FragReturn

SpecFrag == InitFrag /\ [][NextFrag]_vars

\* The same, the goroutine that runs the call being scheduled now and again.
SpecFragLive == InitFrag /\ [][NextFrag]_vars /\ WF_vars(NextFrag)

\* The serial transport: frames written by Tx, damaged frames and stray
\* continuation lines of the peer, read back by Rx.
InitSer == SesnIdle /\ FragIdle /\ SerInit /\ MapIdle /\ TwoIdle /\ WayIdle /\ CodecIdle

NextSer ==
    \/ \E bytes \in SerPayloads : SerTx(bytes)
    \/ \E bytes \in SerPayloads : PeerCorrupt(bytes)
    \/ PeerCont
    \/ SerRxCall
    \/ SerRxLine
    \/ SerRxTimeout

SpecSer == InitSer /\ [][NextSer]_vars

\* The round trip of one frame: what one call of Tx writes is read by Rx.
NextTrip ==
    \/ \E bytes \in TripPayloads : TripTx(bytes)
    \/ SerRxCall
    \/ SerRxLine
    \/ SerRxTimeout

SpecTrip == InitSer /\ [][NextTrip]_vars

\* One frame is written, lines that belong to no frame arrive around and
\* between its bursts, and Rx is called.
NextNoise ==
    \/ \E bytes \in SerPayloads : NoiseTx(bytes)
    \/ \E k \in 0..(2 * MaxSends), line \in NoiseLines : PeerNoise(k, line)
    \/ PeerCont
    \/ PeerBadCont
    \/ SerRxCall
    \/ SerRxLine
    \/ SerRxTimeout

SpecNoise == InitSer /\ [][NextNoise]_vars

\* The peer's frames arrive burst by burst while Rx is called.
NextLate ==
    \/ \E len \in LateLens : PeerTx(len)
    \/ Arrive
    \/ SerRxCall
    \/ SerRxLine
    \/ SerRxTimeout

SpecLate == InitSer /\ [][NextLate]_vars

\* The peer breaks frames off and writes new ones; Rx waits for the lines.
NextAbandon ==
    \/ \E len \in LateLens : PeerTx(len)
    \/ Arrive
    \/ PeerGiveUp
    \/ SerRxCall
    \/ SerRxLine

SpecAbandon == InitSer /\ [][NextAbandon]_vars

\* The codec: a message is encoded and decoded.
InitCodec == SesnIdle /\ FragIdle /\ SerIdle /\ MapIdle /\ TwoIdle /\ WayIdle /\ CodecInit

NextCodec == CodecEncode \/ CodecDecode

SpecCodec == InitCodec /\ [][NextCodec]_vars

\* The header of one option is written and parsed.
InitHeader == SesnIdle /\ FragIdle /\ SerIdle /\ MapIdle /\ TwoIdle /\ WayIdle /\ CodecIdle

NextHeader ==
    \/ \E delta \in HeaderDeltas, length \in HeaderLengths : HeaderWrite(delta, length)
    \/ HeaderParse

SpecHeader == InitHeader /\ [][NextHeader]_vars

\* writeOpts on options that do and do not fit the registry.
InitEncode == SesnIdle /\ FragIdle /\ SerIdle /\ MapIdle /\ TwoIdle /\ WayIdle /\ EncodeInit

NextEncode == EncodeOpts

SpecEncode == InitEncode /\ [][NextEncode]_vars

\* encodeInt and decodeInt.
InitInt ==
    /\ SesnIdle /\ FragIdle /\ SerIdle /\ MapIdle /\ TwoIdle /\ WayIdle
    /\ cOpts = <<>> /\ cPayload = <<>> /\ cBuf = <<>> /\ cOut = NoBody /\ cPc = "new"
    /\ hDelta = 0 /\ hLen = 0 /\ hBuf = <<>> /\ hOut = NoHeader /\ hPc = "new"
    /\ rItems = <<>> /\ rTail = NoTail
    /\ IntInit

NextInt == IntEncode \/ IntDecode

SpecInt == InitInt /\ [][NextInt]_vars

\* Sessions sharing one transport open and close while the reader runs.
InitMap == SesnIdle /\ FragIdle /\ SerIdle /\ CodecIdle /\ MapInit /\ TwoIdle /\ WayIdle

NextMap ==
    \/ \E s \in MapSesns :
          \/ MapOpenCall(s)
          \/ MapOpenLock(s)
          \/ MapOpenTxvrFails(s)
          \/ MapAddBegin(s)
          \/ MapAddEnd(s)
          \/ MapCloseCall(s)
          \/ MapLoopStop(s)
          \/ MapRemoveBegin(s)
          \/ MapRemoveEnd(s)
          \/ MapCloseReturn(s)
    \/ MapLookBegin
    \/ MapLookEnd

SpecMap == InitMap /\ [][NextMap]_vars

\* Two transmit calls run on one open session.
InitTwo == SesnIdle /\ FragIdle /\ SerIdle /\ CodecIdle /\ MapIdle /\ TwoInit /\ WayIdle

NextTwo ==
    \E c \in Callers :
        \/ TwoTxCall(c)
        \/ TwoTxStart(c)
        \/ TwoSend(c)
        \/ TwoSendFails(c)
        \/ TwoReturn(c)

SpecTwo == InitTwo /\ [][NextTwo]_vars

\* parseBody on received bodies whose deltas add up past 255.
InitWide == SesnIdle /\ FragIdle /\ SerIdle /\ MapIdle /\ TwoIdle /\ WayIdle /\ WideInit

NextWide == ParseRaw

SpecWide == InitWide /\ [][NextWide]_vars

\* parseBody on received bodies.
InitParse == SesnIdle /\ FragIdle /\ SerIdle /\ MapIdle /\ TwoIdle /\ WayIdle /\ ParseInit

NextParse == ParseRaw

SpecParse == InitParse /\ [][NextParse]_vars

====
